---- MODULE Spec2Model ----
(***************************************************************************)
(* Event ingestion and command dispatch pipeline of the Slack summarizer   *)
(* backend (src/backend/main.py and its collaborators).                    *)
(*                                                                         *)
(* One action per handler.  A handler is modelled whole: the calls it      *)
(* makes to its collaborators (chat client, store, summarizer, renderer)   *)
(* are recorded, in order, in last.trace, and the outcome of every         *)
(* collaborator call is an input of the action (env).                      *)
(*                                                                         *)
(* Strings the code inspects (texts, user ids) are sequences of one        *)
(* character strings, so that `in`, startswith, lower and slicing are      *)
(* computed as the code computes them.  Times are whole hours.             *)
(***************************************************************************)
EXTENDS Integers, Sequences, FiniteSets, TLC

VARIABLES
    slack_client,        \* SlackService.client is not None (slack.py:16-20)
    ai_base_url,         \* CloudflareAIService.base_url is not None (ai.py:16-20)
    processed_events,    \* main.py:200, kept in insertion order (see Evictions)
    processed_commands,  \* main.py:201, kept in insertion order
    db_messages,         \* collection slack_messages (database.py:12-32)
    db_summaries,        \* collection summaries (database.py:34-51)
    now,                 \* the wall clock, in hours
    last,                \* the handler that ran last: its input and its calls
    run,                 \* the summary run in progress: its position and locals
    workflow_runs,       \* SummaryWorkflow.workflow_runs (workflows.py:22)
    tasks,               \* the coroutines in flight: their positions and locals
    summarizer_state     \* the SummarizerState object (durable_objects.py:21-27)

vars == <<slack_client, ai_base_url, processed_events, processed_commands,
          db_messages, db_summaries, now, last, run, workflow_runs, tasks,
          summarizer_state>>

-----------------------------------------------------------------------------
(* Bounds of the model.                                                    *)

\* The code keeps at most 1000 event keys and drops 100 of them
\* (main.py:217-219); the model keeps the structure and scales the numbers.
EventsLimit == 3
EventsEvict == 1
\* The code keeps at most 500 command keys and drops 50 (main.py:299-301).
CommandsLimit == 2
CommandsEvict == 1
\* Platform timestamps of events are 1..MaxTs.
MaxTs == 2
\* Texts of the classifier specification hold at most MaxWords phrases.
MaxWords == 2
\* Summary records the store may hold (uuid4 identifiers are 1..MaxSummaries).
MaxSummaries == 2
\* Coroutines in flight at a time.
MaxTasks == 3

\* The messages the cache of the state object keeps (1000 in the code,
\* durable_objects.py:47).
CacheLimit == 3
\* Pages the channel listing of the platform may have.
MaxPages == 3
\* Workflow runs the engine may hold (uuid4 identifiers are 1..MaxWorkflowRuns).
MaxWorkflowRuns == 2
\* The code cuts the summary text at 1500 characters (main.py:392); the
\* model cuts at SummaryBudget and tries texts of up to two characters more.
SummaryBudget == 2
\* The code puts at most 40 messages in the prompt (ai.py:190); the model
\* puts PromptCap and tries stores of up to three messages more.
PromptCap == 2

(* Program constants.                                                      *)
HoursPerDay == 24
DaysPerWeek == 7
CommandTextPrefix == 50
DefaultHoursBack == 24

-----------------------------------------------------------------------------
(* Sequences and strings.                                                  *)

Range(s) == {s[i] : i \in 1..Len(s)}

Min(a, b) == IF a < b THEN a ELSE b

\* s[:n] of Python.
Prefix(s, n) == SubSeq(s, 1, Min(n, Len(s)))

\* `kw in text` of Python: kw is a substring of text.
Contains(text, kw) ==
    \E i \in 1..(Len(text) - Len(kw) + 1) : SubSeq(text, i, i + Len(kw) - 1) = kw

\* str.lower() on the characters the model uses.
LowerChar(c) ==
    CASE c = "E" -> "e"
      [] c = "O" -> "o"
      [] c = "D" -> "d"
      [] c = "W" -> "w"
      [] c = "H" -> "h"
      [] c = "L" -> "l"
      [] c = "P" -> "p"
      [] OTHER -> c

Lower(text) == [i \in 1..Len(text) |-> LowerChar(text[i])]

\* s with the elements of the set T removed, order kept.
RECURSIVE Without(_, _)
Without(s, T) ==
    IF s = <<>> THEN <<>>
    ELSE IF Head(s) \in T THEN Without(Tail(s), T)
         ELSE <<Head(s)>> \o Without(Tail(s), T)

-----------------------------------------------------------------------------
(* The deduplication sets (main.py:199-221, 289-303).                      *)

\* event_id of _handle_slack_event: the five fields, joined.
EventKey(ev) == <<ev.type, ev.ts, ev.event_ts, ev.user, ev.channel>>

\* timestamp of _handle_bot_mention: event.get("ts") or event.get("event_ts");
\* an absent ts is 0.
CommandTimestamp(ev) == IF ev.ts # 0 THEN ev.ts ELSE ev.event_ts

\* command_id of _handle_bot_mention; the text is the lower-cased one.
CommandKey(ev) ==
    <<ev.user, ev.channel, CommandTimestamp(ev),
      Prefix(Lower(ev.text), CommandTextPrefix)>>

\* `key in processed_events`, `command_id in processed_commands`.
HasSeen(keys, key) == key \in Range(keys)

\* list(a_set)[:n]: the first n keys in the iteration order of a Python set.
\* That order is the order of the hash table's slots, and the hash of a str
\* is salted per process: any n keys of the set can come first.
Evictions(keys, n) ==
    {T \in SUBSET Range(keys) : Cardinality(T) = Min(n, Len(keys))}

\* Record without the cleanup.
RecordNoCleanup(keys, key, limit, T) == Append(keys, key)

\* add(key), then the cleanup when the set has grown over its limit; T is
\* the slice the cleanup removes.
Record(keys, key, limit, T) ==
    LET added == Append(keys, key)
    IN  IF Len(added) > limit THEN Without(added, T) ELSE added

\* The slices the cleanup can take when key is recorded.
RecordChoices(keys, key, limit, n) ==
    IF Len(keys) + 1 > limit THEN Evictions(Append(keys, key), n) ELSE {{}}

-----------------------------------------------------------------------------
(* Collaborator calls.  A call of the trace: what was called, with which    *)
(* argument, how it ended, a count and, for a chat send, the channel.       *)

Call(call, arg, res, n, to) ==
    [call |-> call, arg |-> arg, res |-> res, n |-> n, to |-> to]

\* SlackService.send_message: raises without a client, returns False on a
\* SlackApiError, else the platform's ok.
SendMessage(kind, channel, env) ==
    Call("send", kind, IF ~slack_client THEN "raise" ELSE env.send, 0, channel)

\* SlackMessage(**message_data): the fields the document requires as str; a
\* user that is absent (None, <<>> in the model) fails the validation.
ValidMessage(m) == m.user_id # <<>>

\* Database.store_slack_message: what the call returns.  True for an
\* identifier the collection holds and for a record it has saved, False when
\* the lookup, the validation or the save raised.
StoreSlackMessageReturns(db, m, env) ==
    IF env.store # "ok" THEN FALSE
    ELSE IF \E x \in db : x.id = m.id THEN TRUE
    ELSE ValidMessage(m)

\* Database.store_slack_message: the records of the collection after the
\* call.  An existing identifier is skipped; a failing store changes nothing.
StoreSlackMessageDb(db, m, env) ==
    IF env.store # "ok" THEN db
    ELSE IF \E x \in db : x.id = m.id THEN db
    ELSE IF ValidMessage(m) THEN db \cup {m}
    ELSE db

\* A loop that leaves after the first message it has inserted.
StoreAllStopsAfterInsert(db, ms, env) ==
    IF env.store # "ok" \/ ~\E m \in ms : ValidMessage(m) /\ ~\E x \in db : x.id = m.id
    THEN db
    ELSE db \cup {CHOOSE m \in ms :
                     /\ ValidMessage(m) /\ ~\E x \in db : x.id = m.id
                     /\ \A y \in ms : (ValidMessage(y) /\ ~\E x \in db : x.id = y.id)
                                          => m.id <= y.id}

\* The loop of sync_messages over the messages of a channel
\* (slack.py:237-239), in the order of their identifiers.
RECURSIVE StoreAll(_, _, _)
StoreAll(db, ms, env) ==
    IF ms = {} THEN db
    ELSE LET m == CHOOSE x \in ms : \A y \in ms : x.id <= y.id
         IN  StoreAll(StoreSlackMessageDb(db, m, env), ms \ {m}, env)

\* Database.get_messages_by_date_range: the records of the window; an
\* exception of the query is logged and the result is the empty list.
GetMessagesByDateRange(db, start, end, env) ==
    IF env.query # "ok" THEN {}
    ELSE {m \in db : m.timestamp >= start /\ m.timestamp <= end}

\* The channels get_channels returns when the listing succeeds.
Channels == {"C1", "C2"}

\* A message as the platform returns it in a channel history or a thread.
Raw(ts, user, text, subtype, channel, replies) ==
    [ts |-> ts, user |-> user, text |-> text, subtype |-> subtype,
     channel |-> channel, replies |-> replies]

\* The subtypes get_messages_from_channel skips (slack.py:104).
HistorySkippedSubtypes == {"bot_message", "channel_join", "channel_leave"}

\* SlackService._process_message: the record of a raw message.
ProcessMessage(raw) ==
    [id |-> raw.ts, channel_id |-> raw.channel, user_id |-> raw.user,
     text |-> raw.text, timestamp |-> raw.ts]

\* SlackService._get_thread_messages: every reply of the thread, processed.
ThreadMessages(raw) == {ProcessMessage(r) : r \in raw.replies}

\* SlackService.get_messages_from_channel on a channel whose history call
\* answers: the history between oldest and latest without the skipped
\* subtypes, and the replies of the threads of the messages it kept.
MessagesFromChannel(channel, t, hours_back, env) ==
    LET history == {m \in env.fetched : /\ m.channel = channel
                                        /\ m.ts >= t - hours_back /\ m.ts <= t}
        kept == {m \in history : m.subtype \notin HistorySkippedSubtypes}
    IN  IF env.fetch[channel] # "ok" THEN {}
        ELSE {ProcessMessage(m) : m \in kept} \cup UNION {ThreadMessages(m) : m \in kept}

\* The raw messages get_messages_from_channel hands to _process_message:
\* the messages of the history it keeps and the replies of their threads
\* (slack.py:107, 140).
ProcessedRaw(channel, t, hours_back, env) ==
    IF env.fetch[channel] # "ok" THEN {}
    ELSE LET kept == {m \in env.fetched : /\ m.channel = channel
                                          /\ m.ts >= t - hours_back /\ m.ts <= t
                                          /\ m.subtype \notin HistorySkippedSubtypes}
         IN  kept \cup UNION {m.replies : m \in kept}

\* The users_info calls of a sync for the user u: _get_user_info makes one
\* in every call of _process_message for a message with that author and
\* keeps no answer (slack.py:161, 182-187).
UsersInfoCalls(u, t, hours_back, env) ==
    Cardinality({r \in UNION {ProcessedRaw(c, t, hours_back, env) : c \in Channels} :
                    r.user = u})

\* The conversations_info calls of a sync for the channel c: one in every
\* call of _process_message for a message of the channel (slack.py:164,
\* 199-201).
ConversationsInfoCalls(c, t, hours_back, env) ==
    Cardinality(ProcessedRaw(c, t, hours_back, env))

\* A loop over the channels that an exception of one fetch leaves.
ProcessedChannelsAllOrNone(env) ==
    IF \E c \in Channels : env.fetch[c] = "raise" THEN {} ELSE Channels

\* The channels whose fetch returned a list: get_messages_from_channel
\* returns [] on a SlackApiError, and any other exception is caught by the
\* loop of sync_messages, which goes on with the next channel.
ProcessedChannels(env) == {c \in Channels : env.fetch[c] # "raise"}

\* The messages a sync fetches, for oldest = now - hours_back and latest =
\* now (slack.py:217-219, 90-98).
FetchedInRange(t, hours_back, env) ==
    UNION {MessagesFromChannel(c, t, hours_back, env) : c \in ProcessedChannels(env)}

\* The result of a sync that fetched the messages of fetched: they are
\* stored one by one.  n: total_messages, the calls of the store that
\* returned True; channels: channels_processed.
SyncResult(db, env, fetched) ==
    [res |-> "ok", db |-> StoreAll(db, fetched, env),
     n |-> Cardinality({m \in fetched : StoreSlackMessageReturns(db, m, env)}),
     channels |-> Cardinality(ProcessedChannels(env))]

\* A sync that lets the failure of the listing leave it.
SyncMessagesListingRaises(db, t, hours_back, env) ==
    IF ~slack_client \/ env.list # "ok" \/ ProcessedChannels(env) = {}
    THEN [res |-> "raise", db |-> db, n |-> 0, channels |-> 0]
    ELSE SyncResult(db, env, FetchedInRange(t, hours_back, env))

\* SlackService.sync_messages: raises without a client; a failed channel
\* listing ends it with success False; else every channel is fetched and
\* its messages stored.
SyncMessages(db, t, hours_back, env) ==
    IF ~slack_client THEN [res |-> "raise", db |-> db, n |-> 0, channels |-> 0]
    ELSE IF env.list # "ok" THEN [res |-> "failed", db |-> db, n |-> 0, channels |-> 0]
    ELSE SyncResult(db, env, FetchedInRange(t, hours_back, env))

\* The call of sync_messages in a trace; arg tells a sync that processed no
\* channel from one that processed some.
SyncCall(sync) ==
    Call("sync", IF sync.res = "ok" /\ sync.channels = 0 THEN "no_channel" ELSE "",
         sync.res, sync.n, "")

\* CloudflareAIService.generate_summary: raises when not configured and
\* when the call fails; else the text of the model.
GenerateSummaryAI(env) ==
    IF ~ai_base_url THEN "raise" ELSE env.ai

\* The window of a summary (main.py:350-356): the current day for EOD, the
\* last seven days for EOW.
WindowStart(summary_type, t) ==
    IF summary_type = "EOD" THEN t - (t % HoursPerDay)
    ELSE t - DaysPerWeek * HoursPerDay

WindowEnd(summary_type, t) ==
    IF summary_type = "EOD" THEN t - (t % HoursPerDay) + (HoursPerDay - 1)
    ELSE t

-----------------------------------------------------------------------------
(* The summary run started by a command (main.py:337-406).                  *)

\* The test with the short cut removed.
NoMessagesNever(n) == FALSE

\* len(messages) == 0 (main.py:368).
NoMessages(n) == n = 0

\* The try block, given what its call of sync_messages does (sync).  exc:
\* an exception left it at the call the trace ends with; db: the message
\* collection it leaves.
TryWithSync(summary_type, channel, db, t, env, sync) ==
    LET s1 == SendMessage(IF summary_type = "EOD" THEN "progress_EOD" ELSE "progress_EOW",
                          channel, env)
        c2 == SyncCall(sync)
        messages == GetMessagesByDateRange(sync.db, WindowStart(summary_type, t),
                                           WindowEnd(summary_type, t), env)
        n == Cardinality(messages)
        c3 == Call("query", summary_type,
                   IF env.query = "ok" THEN "ok" ELSE "failed", n, "")
        s4 == SendMessage("no_messages", channel, env)
        s5 == SendMessage("processing", channel, env)
        c6 == Call("summarize", summary_type, GenerateSummaryAI(env), n, "")
        s7 == SendMessage("summary", channel, env)
    IN  IF s1.res = "raise"
        THEN [trace |-> <<s1>>, exc |-> TRUE, db |-> db]
        ELSE IF sync.res = "raise"
        THEN [trace |-> <<s1, c2>>, exc |-> TRUE, db |-> db]
        ELSE IF NoMessages(n)
        THEN [trace |-> <<s1, c2, c3, s4>>, exc |-> s4.res = "raise",
              db |-> sync.db]
        ELSE IF s5.res = "raise"
        THEN [trace |-> <<s1, c2, c3, s5>>, exc |-> TRUE, db |-> sync.db]
        ELSE IF c6.res = "raise"
        THEN [trace |-> <<s1, c2, c3, s5, c6>>, exc |-> TRUE, db |-> sync.db]
        ELSE [trace |-> <<s1, c2, c3, s5, c6, s7>>, exc |-> s7.res = "raise",
              db |-> sync.db]

\* The outcome r of the try block, with no except clause after it.
NoExceptClause(r) == [trace |-> r.trace, raised |-> r.exc, db |-> r.db]

\* The except clause after the outcome r of the try block: when an
\* exception left the block, the send f of the failure notice.
ExceptClause(r, f) ==
    IF r.exc
    THEN [trace |-> Append(r.trace, f), raised |-> f.res = "raise", db |-> r.db]
    ELSE [trace |-> r.trace, raised |-> FALSE, db |-> r.db]

\* The try block.
GenerateAndSendSummaryTry(summary_type, channel, db, t, env) ==
    TryWithSync(summary_type, channel, db, t, env,
                SyncMessages(db, t, DefaultHoursBack, env))

\* The function without its except clause: the exception leaves it.
GenerateAndSendSummaryNoExcept(summary_type, channel, db, t, env) ==
    NoExceptClause(GenerateAndSendSummaryTry(summary_type, channel, db, t, env))

\* The whole function: the except clause sends the failure notice, and an
\* exception of that send leaves the function.
GenerateAndSendSummary(summary_type, channel, db, t, env) ==
    ExceptClause(GenerateAndSendSummaryTry(summary_type, channel, db, t, env),
                 SendMessage("failure", channel, env))

-----------------------------------------------------------------------------
(* The summary run, one await at a time (main.py:337-406).  run.pc is the    *)
(* call the coroutine is suspended at; every call returns or raises, as     *)
(* its env says.                                                            *)

\* The locals of a run: where it is, its arguments, its calls so far, the
\* number of messages the query returned, and whether an exception left it.
Running(pc, summary_type, channel, trace, n, raised) ==
    [pc |-> pc, summary_type |-> summary_type, channel |-> channel,
     trace |-> trace, n |-> n, raised |-> raised]

NoRun == Running("idle", "", "", <<>>, 0, FALSE)

\* What the steps of a run leave alone.
RunFrame ==
    UNCHANGED <<summarizer_state, slack_client, ai_base_url, processed_events, processed_commands,
                db_summaries, now, last, workflow_runs, tasks>>

\* The run after a call: on at pc when the call returned, in the except
\* clause when it raised.
AfterCall(c, pc, n) ==
    Running(IF c.res = "raise" THEN "except" ELSE pc, run.summary_type, run.channel,
            Append(run.trace, c), n, FALSE)

\* _generate_and_send_summary is called; no run is in progress.
RunStart(summary_type, channel, env) ==
    /\ run.pc \in {"idle", "ended"}
    /\ env.now >= now
    /\ now' = env.now
    /\ run' = Running("notify", summary_type, channel, <<>>, 0, FALSE)
    /\ UNCHANGED <<summarizer_state, slack_client, ai_base_url, processed_events, processed_commands,
                   db_messages, db_summaries, last, workflow_runs, tasks>>

\* main.py:340-343.
RunNotify(env) ==
    /\ run.pc = "notify"
    /\ run' = AfterCall(SendMessage(IF run.summary_type = "EOD" THEN "progress_EOD"
                                    ELSE "progress_EOW", run.channel, env),
                        "sync", 0)
    /\ UNCHANGED db_messages
    /\ RunFrame

\* main.py:347.
RunSync(env) ==
    /\ run.pc = "sync"
    /\ LET sync == SyncMessages(db_messages, now, DefaultHoursBack, env)
       IN  /\ run' = AfterCall(SyncCall(sync), "query", 0)
           /\ db_messages' = sync.db
    /\ RunFrame

\* main.py:350-368.
RunQuery(env) ==
    /\ run.pc = "query"
    /\ LET messages == GetMessagesByDateRange(db_messages,
                                              WindowStart(run.summary_type, now),
                                              WindowEnd(run.summary_type, now), env)
           n == Cardinality(messages)
       IN  run' = AfterCall(Call("query", run.summary_type,
                                 IF env.query = "ok" THEN "ok" ELSE "failed", n, ""),
                            IF NoMessages(n) THEN "no_messages" ELSE "processing", n)
    /\ UNCHANGED db_messages
    /\ RunFrame

\* The notice without the return after it.
RunNoMessagesFallsThrough(env) ==
    /\ run.pc = "no_messages"
    /\ run' = AfterCall(SendMessage("no_messages", run.channel, env), "processing", run.n)
    /\ UNCHANGED db_messages
    /\ RunFrame

\* main.py:369-373: the notice, then return.
RunNoMessages(env) ==
    /\ run.pc = "no_messages"
    /\ run' = AfterCall(SendMessage("no_messages", run.channel, env), "ended", run.n)
    /\ UNCHANGED db_messages
    /\ RunFrame

\* main.py:376-379.
RunProcessing(env) ==
    /\ run.pc = "processing"
    /\ run' = AfterCall(SendMessage("processing", run.channel, env), "summarize", run.n)
    /\ UNCHANGED db_messages
    /\ RunFrame

\* main.py:383-387.
RunSummarize(env) ==
    /\ run.pc = "summarize"
    /\ run' = AfterCall(Call("summarize", run.summary_type, GenerateSummaryAI(env),
                             run.n, ""),
                        "deliver", run.n)
    /\ UNCHANGED db_messages
    /\ RunFrame

\* main.py:392-397.
RunDeliver(env) ==
    /\ run.pc = "deliver"
    /\ run' = AfterCall(SendMessage("summary", run.channel, env), "ended", run.n)
    /\ UNCHANGED db_messages
    /\ RunFrame

\* main.py:399-406: the except clause; an exception of its send leaves the
\* function.
RunExcept(env) ==
    /\ run.pc = "except"
    /\ LET f == SendMessage("failure", run.channel, env)
       IN  run' = Running("ended", run.summary_type, run.channel, Append(run.trace, f),
                          run.n, f.res = "raise")
    /\ UNCHANGED db_messages
    /\ RunFrame

-----------------------------------------------------------------------------
(* The command classifier and the mention handler (main.py:281-335).        *)

KwEod == <<"e", "o", "d">>
KwDaily == <<"d", "a", "i", "l", "y">>
KwEndOfDay == <<"e", "n", "d", " ", "o", "f", " ", "d", "a", "y">>
KwEow == <<"e", "o", "w">>
KwWeekly == <<"w", "e", "e", "k", "l", "y">>
KwEndOfWeek == <<"e", "n", "d", " ", "o", "f", " ", "w", "e", "e", "k">>
KwHelp == <<"h", "e", "l", "p">>
KwSync == <<"s", "y", "n", "c">>

\* The chain with the help branch tested first.
ClassifyHelpFirst(text) ==
    IF Contains(text, KwHelp) THEN "help"
    ELSE IF Contains(text, KwEod) \/ Contains(text, KwDaily) \/ Contains(text, KwEndOfDay)
    THEN "EOD"
    ELSE IF Contains(text, KwEow) \/ Contains(text, KwWeekly)
            \/ Contains(text, KwEndOfWeek)
    THEN "EOW"
    ELSE IF Contains(text, KwSync) THEN "sync"
    ELSE "fallback"

\* The if/elif chain of main.py:308-328 on the lower-cased text.
Classify(text) ==
    IF Contains(text, KwEod) \/ Contains(text, KwDaily) \/ Contains(text, KwEndOfDay)
    THEN "EOD"
    ELSE IF Contains(text, KwEow) \/ Contains(text, KwWeekly)
            \/ Contains(text, KwEndOfWeek)
    THEN "EOW"
    ELSE IF Contains(text, KwHelp) THEN "help"
    ELSE IF Contains(text, KwSync) THEN "sync"
    ELSE "fallback"

\* The branch of the sync command (main.py:314-323).
SyncCommandWithSync(channel, db, env, sync) ==
    LET s1 == SendMessage("sync_start", channel, env)
        c2 == SyncCall(sync)
        s3 == SendMessage("sync_done", channel, env)
    IN  IF s1.res = "raise"
        THEN [trace |-> <<s1>>, raised |-> TRUE, db |-> db]
        ELSE IF sync.res = "raise"
        THEN [trace |-> <<s1, c2>>, raised |-> TRUE, db |-> db]
        ELSE [trace |-> <<s1, c2, s3>>, raised |-> s3.res = "raise", db |-> sync.db]

SyncCommand(channel, db, t, hours_back, env) ==
    SyncCommandWithSync(channel, db, env, SyncMessages(db, t, hours_back, env))

\* One send: the help text (main.py:155-173) or the fallback reply.
SendOnly(kind, channel, db, env) ==
    LET s1 == SendMessage(kind, channel, env)
    IN  [trace |-> <<s1>>, raised |-> s1.res = "raise", db |-> db]

\* The action of a command that is not a duplicate.
Dispatch(intent, channel, db, t, env) ==
    CASE intent = "EOD" -> GenerateAndSendSummary("EOD", channel, db, t, env)
      [] intent = "EOW" -> GenerateAndSendSummary("EOW", channel, db, t, env)
      [] intent = "help" -> SendOnly("help", channel, db, env)
      [] intent = "sync" -> SyncCommand(channel, db, t, DefaultHoursBack, env)
      [] OTHER -> SendOnly("fallback", channel, db, env)

\* _handle_bot_mention.  cmds: processed_commands before; T: the slice the
\* cleanup removes.  The except clause sends the error notice; an exception
\* of that send leaves the handler.
HandleBotMention(ev, cmds, db, t, env, T) ==
    LET text == Lower(ev.text)
        command_id == CommandKey(ev)
        intent == Classify(text)
        r == Dispatch(intent, ev.channel, db, t, env)
        e == SendMessage("mention_error", ev.channel, env)
    IN  IF HasSeen(cmds, command_id)
        THEN [cmds |-> cmds, intent |-> "duplicate_command", trace |-> <<>>,
              raised |-> FALSE, db |-> db]
        ELSE [cmds |-> Record(cmds, command_id, CommandsLimit, T),
              intent |-> intent,
              trace |-> IF r.raised THEN Append(r.trace, e) ELSE r.trace,
              raised |-> r.raised /\ e.res = "raise",
              db |-> r.db]

-----------------------------------------------------------------------------
(* Webhook events (main.py:203-279).                                        *)

Event(type, ts, event_ts, user, channel, text, subtype) ==
    [type |-> type, ts |-> ts, event_ts |-> event_ts, user |-> user,
     channel |-> channel, text |-> text, subtype |-> subtype]

\* The markup <@bot_id> of a mention of the bot, as one character.
BotMention == <<"@">>

SkippedSubtypes == {"bot_message", "channel_join", "channel_leave"}

\* user.startswith("U") on a user that is not empty.
UserShapeOk(user) == Len(user) > 0 /\ user[1] = "U"

\* The record built at main.py:258-269; the timestamp is the event_ts.
MessageOfEvent(ev) ==
    [id |-> ev.event_ts, channel_id |-> ev.channel, user_id |-> ev.user,
     text |-> ev.text, timestamp |-> ev.event_ts]

\* _store_slack_message: skips the subtypes, an empty text and a user of
\* another shape; float(event_ts) raises on an absent event_ts (0), after
\* the two lookups, and the except clause logs it.
StoreSlackMessage(ev, db, env) ==
    LET c1 == Call("channel_info", "", IF slack_client THEN "ok" ELSE "unknown", 0, "")
        c2 == Call("user_info", "", IF slack_client THEN "ok" ELSE "unknown", 0, "")
        c3 == Call("store", "message",
                   IF StoreSlackMessageReturns(db, MessageOfEvent(ev), env)
                   THEN "ok" ELSE "failed", 0, "")
    IN  IF ev.subtype \in SkippedSubtypes THEN [trace |-> <<>>, db |-> db]
        ELSE IF ~(Len(ev.text) > 0 /\ UserShapeOk(ev.user))
        THEN [trace |-> <<>>, db |-> db]
        ELSE IF ev.event_ts = 0 THEN [trace |-> <<c1, c2>>, db |-> db]
        ELSE [trace |-> <<c1, c2, c3>>,
              db |-> StoreSlackMessageDb(db, MessageOfEvent(ev), env)]

\* _get_bot_user_id: the bot_id of a healthy health_check, else None.
BotUserIdKnown(env) == slack_client /\ env.bot = "known"

\* A routing that looks at the text alone, whatever the type of the event.
IsMentionOfAnyType(ev, env) == Contains(ev.text, BotMention)

\* Whether _handle_slack_event passes the event to _handle_bot_mention.
IsMention(ev, env) ==
    \/ ev.type = "app_mention"
    \/ ev.type = "message" /\ BotUserIdKnown(env) /\ Contains(ev.text, BotMention)

NoEvent == Event("none", 0, 0, <<>>, "", <<>>, "")
NoRequest == [type |-> "none", start |-> 0, end |-> 0, custom |-> FALSE, prefs |-> FALSE]
NoCommand == [command |-> "none", channel |-> "", text |-> <<>>]

\* What a handler leaves in last: its input, the command it chose, the keys
\* its cleanups removed (oldest_events, oldest_commands of the code), its
\* calls, whether an exception left it and the HTTP status.
Ran(op, ev, req, cmd, intent, oldest_events, oldest_commands, trace, raised, status) ==
    [op |-> op, event |-> ev, request |-> req, command |-> cmd, intent |-> intent,
     oldest_events |-> oldest_events, oldest_commands |-> oldest_commands,
     trace |-> trace, raised |-> raised, status |-> status]

\* The handler without its duplicate check.
IsDuplicateEventNever(ev) == FALSE

\* The duplicate check of _handle_slack_event (main.py:211).
IsDuplicateEvent(ev) == HasSeen(processed_events, EventKey(ev))

\* _handle_slack_event on one webhook delivery.
HandleSlackEvent(ev, env) ==
    /\ env.now >= now
    /\ now' = env.now
    /\ UNCHANGED <<summarizer_state, slack_client, ai_base_url, db_summaries, run,
                   workflow_runs, tasks>>
    /\ IF IsDuplicateEvent(ev)
       THEN /\ last' = Ran("event", ev, NoRequest, NoCommand, "duplicate_event", {}, {},
                           <<>>, FALSE, 200)
            /\ UNCHANGED <<processed_events, processed_commands, db_messages>>
       ELSE \E Te \in RecordChoices(processed_events, EventKey(ev), EventsLimit, EventsEvict) :
            LET st == IF ev.type = "message"
                      THEN StoreSlackMessage(ev, db_messages, env)
                      ELSE [trace |-> <<>>, db |-> db_messages]
                auth == IF ev.type = "message"
                        THEN <<Call("auth_test", "",
                                    IF BotUserIdKnown(env) THEN "ok" ELSE "unknown", 0, "")>>
                        ELSE <<>>
            IN  /\ processed_events' = Record(processed_events, EventKey(ev), EventsLimit, Te)
                /\ IF IsMention(ev, env)
                   THEN \E Tc \in (IF HasSeen(processed_commands, CommandKey(ev))
                                   THEN {{}}
                                   ELSE RecordChoices(processed_commands, CommandKey(ev),
                                                      CommandsLimit, CommandsEvict)) :
                        LET m == HandleBotMention(ev, processed_commands, st.db,
                                                  env.now, env, Tc)
                        IN  /\ processed_commands' = m.cmds
                            /\ db_messages' = m.db
                            /\ last' = Ran("event", ev, NoRequest, NoCommand, m.intent, Te, Tc,
                                           st.trace \o auth \o m.trace, m.raised,
                                           IF m.raised THEN 500 ELSE 200)
                   ELSE /\ processed_commands' = processed_commands
                        /\ db_messages' = st.db
                        /\ last' = Ran("event", ev, NoRequest, NoCommand, "none", Te, {},
                                       st.trace \o auth, FALSE, 200)

-----------------------------------------------------------------------------
(* Webhook deliveries handled concurrently (main.py:203-335).  A task is    *)
(* one call of _handle_slack_event; a step is the stretch of its code       *)
(* between two awaits of a collaborator.  The stretches of the two gates    *)
(* (main.py:207-221, 289-303) hold no await.                                *)

\* A delivery that waits to run.  passed_event, passed_command: it went on
\* after the gate; oldest_events, oldest_commands: what its cleanups removed.
DeliveryTask(ev) ==
    [ev |-> ev, pc |-> "gate", passed_event |-> FALSE, passed_command |-> FALSE,
     oldest_events |-> {}, oldest_commands |-> {}]

\* The slices the cleanup of the command gate can take.
CommandChoices(ev) ==
    IF HasSeen(processed_commands, CommandKey(ev)) THEN {{}}
    ELSE RecordChoices(processed_commands, CommandKey(ev), CommandsLimit, CommandsEvict)

\* The gate of _handle_bot_mention (main.py:289-303) for the task tk, with
\* the slice T of its cleanup: the set and the task after it.
CommandGateOf(tk, T) ==
    IF HasSeen(processed_commands, CommandKey(tk.ev))
    THEN [cmds |-> processed_commands, task |-> [tk EXCEPT !.pc = "done"]]
    ELSE [cmds |-> Record(processed_commands, CommandKey(tk.ev), CommandsLimit, T),
          task |-> [tk EXCEPT !.pc = "dispatch", !.passed_command = TRUE,
                              !.oldest_commands = T]]

\* The webhook receives an event.
Deliver(ev) ==
    /\ Len(tasks) < MaxTasks
    /\ tasks' = Append(tasks, DeliveryTask(ev))
    /\ UNCHANGED <<summarizer_state, slack_client, ai_base_url, processed_events, processed_commands,
                   db_messages, db_summaries, now, last, run, workflow_runs>>

\* main.py:207-221, up to the first await: the check, the add and the
\* cleanup; for an app_mention the gate of _handle_bot_mention follows with
\* no await before it.
EventGate(i) ==
    /\ tasks[i].pc = "gate"
    /\ UNCHANGED <<summarizer_state, slack_client, ai_base_url, db_messages, db_summaries, now, last, run,
                   workflow_runs>>
    /\ IF IsDuplicateEvent(tasks[i].ev)
       THEN /\ tasks' = [tasks EXCEPT ![i].pc = "done"]
            /\ UNCHANGED <<processed_events, processed_commands>>
       ELSE \E Te \in RecordChoices(processed_events, EventKey(tasks[i].ev),
                                    EventsLimit, EventsEvict) :
            /\ processed_events' = Record(processed_events, EventKey(tasks[i].ev),
                                          EventsLimit, Te)
            /\ IF tasks[i].ev.type = "app_mention"
               THEN \E Tc \in CommandChoices(tasks[i].ev) :
                    /\ processed_commands'
                         = CommandGateOf(tasks[i], Tc).cmds
                    /\ tasks' = [tasks EXCEPT ![i] =
                                   [CommandGateOf(tasks[i], Tc).task
                                      EXCEPT !.passed_event = TRUE, !.oldest_events = Te]]
               ELSE /\ tasks' = [tasks EXCEPT ![i].pc = "store",
                                              ![i].passed_event = TRUE,
                                              ![i].oldest_events = Te]
                    /\ UNCHANGED processed_commands

\* await _store_slack_message(event) (main.py:227).
StoreStep(i, env) ==
    /\ tasks[i].pc = "store"
    /\ db_messages' = StoreSlackMessage(tasks[i].ev, db_messages, env).db
    /\ tasks' = [tasks EXCEPT ![i].pc = "bot_id"]
    /\ UNCHANGED <<summarizer_state, slack_client, ai_base_url, processed_events, processed_commands,
                   db_summaries, now, last, run, workflow_runs>>

\* await _get_bot_user_id() and the test of the mention (main.py:231-235);
\* the gate of _handle_bot_mention follows with no await before it.
MentionStep(i, env) ==
    /\ tasks[i].pc = "bot_id"
    /\ UNCHANGED <<summarizer_state, slack_client, ai_base_url, processed_events, db_messages,
                   db_summaries, now, last, run, workflow_runs>>
    /\ IF IsMention(tasks[i].ev, env)
       THEN \E Tc \in CommandChoices(tasks[i].ev) :
            /\ processed_commands' = CommandGateOf(tasks[i], Tc).cmds
            /\ tasks' = [tasks EXCEPT ![i] = CommandGateOf(tasks[i], Tc).task]
       ELSE /\ tasks' = [tasks EXCEPT ![i].pc = "done"]
            /\ UNCHANGED processed_commands

\* The action of the command (main.py:307-328), to its end.
DispatchStep(i, env) ==
    /\ tasks[i].pc = "dispatch"
    /\ db_messages' = Dispatch(Classify(Lower(tasks[i].ev.text)), tasks[i].ev.channel,
                               db_messages, now, env).db
    /\ tasks' = [tasks EXCEPT ![i].pc = "done"]
    /\ UNCHANGED <<summarizer_state, slack_client, ai_base_url, processed_events, processed_commands,
                   db_summaries, now, last, run, workflow_runs>>

-----------------------------------------------------------------------------
(* Calls of Database.store_slack_message that overlap (database.py:125-139). *)
(* A task is one call; it is suspended at await find_one and at await save.  *)

\* A save that adds a document whatever the collection holds.
SaveDocumentAppends(db, m) == db \cup {m}

\* Document.save of Beanie: the document replaces the stored document of
\* its _id, or is inserted when the collection holds none.
SaveDocument(db, m) == {x \in db : x.id # m.id} \cup {m}

\* A call that waits for its lookup.  present: a record of the identifier
\* existed when the call was made; ret: what the call returned.
StoreTask(m, db) ==
    [m |-> m, pc |-> "find", present |-> \E x \in db : x.id = m.id,
     existing |-> FALSE, raised |-> FALSE, ret |-> "pending"]

\* A lookup that finds nothing.
FindOneNothing(db, m) == FALSE

\* SlackMessage.find_one(SlackMessage.id == message_data["id"]).
FindOne(db, m) == \E x \in db : x.id = m.id

\* A flow calls store_slack_message(message_data).
StartStore(m) ==
    /\ Len(tasks) < MaxTasks
    /\ tasks' = Append(tasks, StoreTask(m, db_messages))
    /\ UNCHANGED <<summarizer_state, slack_client, ai_base_url, processed_events, processed_commands,
                   db_messages, db_summaries, now, last, run, workflow_runs>>

\* The lookup answers (database.py:129-134): an existing record ends the
\* call with True, a lookup or a validation that raises ends it with False,
\* else the call goes on to the save.
FindStep(i, env) ==
    /\ tasks[i].pc = "find"
    /\ tasks' = [tasks EXCEPT ![i] =
         IF env.store # "ok"
         THEN [@ EXCEPT !.pc = "done", !.raised = TRUE, !.ret = "False"]
         ELSE IF FindOne(db_messages, @.m)
         THEN [@ EXCEPT !.pc = "done", !.existing = TRUE, !.ret = "True"]
         ELSE IF ~ValidMessage(@.m)
         THEN [@ EXCEPT !.pc = "done", !.ret = "False"]
         ELSE [@ EXCEPT !.pc = "save"]]
    /\ UNCHANGED <<summarizer_state, slack_client, ai_base_url, processed_events, processed_commands,
                   db_messages, db_summaries, now, last, run, workflow_runs>>

\* The save answers (database.py:135-139).
SaveStep(i, env) ==
    /\ tasks[i].pc = "save"
    /\ IF env.store # "ok"
       THEN /\ tasks' = [tasks EXCEPT ![i].pc = "done", ![i].raised = TRUE,
                                      ![i].ret = "False"]
            /\ UNCHANGED db_messages
       ELSE /\ db_messages' = SaveDocument(db_messages, tasks[i].m)
            /\ tasks' = [tasks EXCEPT ![i].pc = "done", ![i].ret = "True"]
    /\ UNCHANGED <<summarizer_state, slack_client, ai_base_url, processed_events, processed_commands,
                   db_summaries, now, last, run, workflow_runs>>

-----------------------------------------------------------------------------
(* SlackService.get_channels (slack.py:39-72), one iteration of its loop at  *)
(* a step.  The loop holds no await: a listing runs alone.                   *)

\* conversations_list: the page the cursor names, the first page without a
\* cursor.  The cursor of page k is k; 0 stands for None and for the empty
\* next_cursor of the last page.
ConversationsList(pages, cursor) ==
    [channels |-> pages[IF cursor = 0 THEN 1 ELSE cursor],
     next_cursor |-> IF (IF cursor = 0 THEN 1 ELSE cursor) < Len(pages)
                     THEN (IF cursor = 0 THEN 1 ELSE cursor) + 1 ELSE 0]

\* The record get_channels keeps of a channel (slack.py:55-60).
ChannelRecord(c) ==
    [id |-> c.id, name |-> c.name, is_private |-> FALSE, member_count |-> 0]

\* A loop that leaves after its first page.
ListingEndsAtFirstPage(response) == TRUE

\* if not cursor: break (slack.py:63-65).
ListingEnds(response) == response.next_cursor = 0

\* A call of get_channels on a platform that lists the channels in pages.
ListingTask(pages) ==
    [pages |-> pages, pc |-> "list", cursor |-> 0, channels |-> <<>>, calls |-> 0]

\* get_channels is called; it raises at once without a client.
StartListing(pages) ==
    /\ tasks = <<>>
    /\ tasks' = <<IF slack_client THEN ListingTask(pages)
                  ELSE [ListingTask(pages) EXCEPT !.pc = "raised"]>>
    /\ UNCHANGED <<summarizer_state, slack_client, ai_base_url, processed_events, processed_commands,
                   db_messages, db_summaries, now, last, run, workflow_runs>>

\* One iteration of the loop: the call, the channels of the page appended,
\* the cursor of the next page; a SlackApiError leaves the function as an
\* exception.
ListStep(i, env) ==
    /\ tasks[i].pc = "list"
    /\ tasks' = [tasks EXCEPT ![i] =
         IF env.list # "ok"
         THEN [@ EXCEPT !.pc = "raised", !.calls = @ + 1]
         ELSE [@ EXCEPT
                 !.calls = @ + 1,
                 !.channels = @ \o [k \in 1..Len(ConversationsList(tasks[i].pages,
                                                    tasks[i].cursor).channels) |->
                                     ChannelRecord(ConversationsList(tasks[i].pages,
                                                     tasks[i].cursor).channels[k])],
                 !.cursor = ConversationsList(tasks[i].pages, tasks[i].cursor).next_cursor,
                 !.pc = IF ListingEnds(ConversationsList(tasks[i].pages, tasks[i].cursor))
                        THEN "done" ELSE "list"]]
    /\ UNCHANGED <<summarizer_state, slack_client, ai_base_url, processed_events, processed_commands,
                   db_messages, db_summaries, now, last, run, workflow_runs>>

-----------------------------------------------------------------------------
(* The generate-summary API (main.py:441-520) and the store of summaries.   *)

\* PDFService.create_summary_pdf: a document reference, or an exception.
CreateSummaryPdf(env) == env.render

\* Database.store_summary_metadata: a new uuid4 identifier, or the
\* exception of the save, re-raised.
StoreSummaryMetadata(summaries, summary_type, n, env) ==
    IF env.save # "ok" THEN summaries
    ELSE summaries \cup {[id |-> Cardinality(summaries) + 1, type |-> summary_type,
                          message_count |-> n, pdf_path |-> "pdf"]}

\* generate_summary: 404 on an empty window, 500 on any exception.
GenerateSummary(req, env) ==
    LET messages == GetMessagesByDateRange(db_messages, req.start, req.end, env)
        n == Cardinality(messages)
        c1 == Call("query", req.type, IF env.query = "ok" THEN "ok" ELSE "failed", n, "")
        p2 == IF req.prefs THEN <<>> ELSE <<Call("preferences", "", "ok", 0, "")>>
        c3 == Call("summarize", IF req.custom THEN "custom" ELSE req.type,
                   GenerateSummaryAI(env), n, "")
        c4 == Call("render", req.type, CreateSummaryPdf(env), n, "")
        c5 == Call("persist", req.type, env.save, n, "")
    IN  IF n = 0
        THEN [trace |-> <<c1>>, status |-> 404, summaries |-> db_summaries]
        ELSE IF c3.res = "raise"
        THEN [trace |-> <<c1>> \o p2 \o <<c3>>, status |-> 500, summaries |-> db_summaries]
        ELSE IF c4.res = "raise"
        THEN [trace |-> <<c1>> \o p2 \o <<c3, c4>>, status |-> 500,
              summaries |-> db_summaries]
        ELSE [trace |-> <<c1>> \o p2 \o <<c3, c4, c5>>,
              status |-> IF c5.res = "raise" THEN 500 ELSE 200,
              summaries |-> StoreSummaryMetadata(db_summaries, req.type, n, env)]

\* POST /api/summary/generate.
GenerateSummaryApi(req, env) ==
    /\ env.now >= now
    /\ now' = env.now
    /\ Cardinality(db_summaries) < MaxSummaries
    /\ LET r == GenerateSummary(req, env)
       IN  /\ db_summaries' = r.summaries
           /\ last' = Ran("api", NoEvent, req, NoCommand, "none", {}, {}, r.trace,
                          r.status = 500, r.status)
    /\ UNCHANGED <<summarizer_state, slack_client, ai_base_url, processed_events, processed_commands,
                   db_messages, run,
                   workflow_runs, tasks>>

-----------------------------------------------------------------------------
(* The workflow engine (workflows.py:15-101) and its endpoints              *)
(* (main.py:654-686).  Hour 0 of the clock is the midnight before a Monday. *)

\* start_time of run_eod_workflow (workflows.py:31): the midnight of the
\* current day; of run_eow_workflow (workflows.py:70-72): the midnight of
\* the Monday of the current week.
WorkflowStartTime(type, t) ==
    IF type = "EOD" THEN t - (t % HoursPerDay)
    ELSE t - (t % (DaysPerWeek * HoursPerDay))

\* The result of a workflow that ran at time t (workflows.py:34-44, 75-85).
WorkflowResult(workflow_id, type, t) ==
    [workflow_id |-> workflow_id, status |-> "completed", type |-> type,
     message_count |-> 0, generated_at |-> t,
     start |-> WorkflowStartTime(type, t), end |-> t]

\* str(uuid.uuid4()) (main.py:659, 676): an identifier no recorded run has;
\* the least of 1..MaxWorkflowRuns that is free.
NewWorkflowId(runs) ==
    CHOOSE k \in 1..MaxWorkflowRuns :
        /\ \A i \in 1..Len(runs) : runs[i].workflow_id # k
        /\ \A j \in 1..(k - 1) : \E i \in 1..Len(runs) : runs[i].workflow_id = j

\* POST /api/workflows/eod/run and /api/workflows/eow/run: a new uuid4
\* identifier, the run of the engine, which records its result, and the
\* response with the result.  Nothing in the try block of the engine raises.
RunWorkflow(type, env) ==
    /\ env.now >= now
    /\ now' = env.now
    /\ Len(workflow_runs) < MaxWorkflowRuns
    /\ workflow_runs' = Append(workflow_runs,
                               WorkflowResult(NewWorkflowId(workflow_runs), type, env.now))
    /\ last' = Ran("workflow", NoEvent, NoRequest, NoCommand, type, {}, {}, <<>>, FALSE, 200)
    /\ UNCHANGED <<summarizer_state, slack_client, ai_base_url, processed_events, processed_commands,
                   db_messages, db_summaries, run, tasks>>

RunEodWorkflow(env) == RunWorkflow("EOD", env)

RunEowWorkflow(env) == RunWorkflow("EOW", env)

\* A test that takes the run at the cutoff for old.
IsOldRunInclusive(run_time, cutoff_time) == run_time <= cutoff_time

\* run_time < cutoff_time (workflows.py:163).
IsOldRun(run_time, cutoff_time) == run_time < cutoff_time

\* The time of a run: generated_at, else failed_at; the engine writes
\* datetime.utcnow().isoformat() and fromisoformat reads that time back
\* (workflows.py:159-162).
RunTime(run_data) == run_data.generated_at

\* The runs cleanup_old_workflow_runs keeps for a cutoff.
RECURSIVE RunsKept(_, _)
RunsKept(runs, cutoff_time) ==
    IF runs = <<>> THEN <<>>
    ELSE IF IsOldRun(RunTime(Head(runs)), cutoff_time)
    THEN RunsKept(Tail(runs), cutoff_time)
    ELSE <<Head(runs)>> \o RunsKept(Tail(runs), cutoff_time)

\* SummaryWorkflow.cleanup_old_workflow_runs(days_old) (workflows.py:152-175).
CleanupOldWorkflowRuns(days_old, env) ==
    /\ env.now >= now
    /\ now' = env.now
    /\ workflow_runs' = RunsKept(workflow_runs, env.now - days_old * HoursPerDay)
    /\ last' = Ran("cleanup", NoEvent,
                   [NoRequest EXCEPT !.type = "cleanup",
                                     !.start = env.now - days_old * HoursPerDay,
                                     !.end = env.now],
                   NoCommand, "none", {}, {}, <<>>, FALSE, 200)
    /\ UNCHANGED <<summarizer_state, slack_client, ai_base_url, processed_events, processed_commands,
                   db_messages, db_summaries, run, tasks>>

\* No run: the None of get_workflow_status.
NoWorkflowRun == [WorkflowResult(0, "none", 0) EXCEPT !.status = "none"]

\* SummaryWorkflow.get_workflow_status (workflows.py:141-143).
GetWorkflowStatus(runs, workflow_id) ==
    IF \E i \in 1..Len(runs) : runs[i].workflow_id = workflow_id
    THEN runs[CHOOSE i \in 1..Len(runs) : runs[i].workflow_id = workflow_id]
    ELSE NoWorkflowRun

-----------------------------------------------------------------------------
(* Slash commands (main.py:929-996).                                        *)

\* _handle_summary_command: the notice, then the summary run.
HandleSummaryCommand(summary_type, channel, db, t, env) ==
    LET s1 == SendMessage("requested", channel, env)
        r == GenerateAndSendSummary(summary_type, channel, db, t, env)
    IN  IF s1.res = "raise"
        THEN [trace |-> <<s1>>, raised |-> TRUE, db |-> db]
        ELSE [trace |-> <<s1>> \o r.trace, raised |-> r.raised, db |-> r.db]

Digits == <<"0", "1", "2", "3", "4", "5", "6", "7", "8", "9">>

\* text.isdigit() on the digits 0-9.
IsDigit(text) ==
    Len(text) > 0 /\ \A i \in 1..Len(text) : \E d \in 1..10 : Digits[d] = text[i]

\* int(text) of a text of digits.
RECURSIVE IntOf(_)
IntOf(text) ==
    IF text = <<>> THEN 0
    ELSE 10 * IntOf(SubSeq(text, 1, Len(text) - 1))
         + (CHOOSE d \in 1..10 : Digits[d] = text[Len(text)]) - 1

\* _handle_sync_command: the hours of the text, else 24; then as the sync
\* branch of a mention, with its own except clause.
HandleSyncCommand(channel, text, db, t, env) ==
    LET r == SyncCommand(channel, db, t,
                         IF IsDigit(text) THEN IntOf(text) ELSE DefaultHoursBack, env)
        e == SendMessage("sync_error", channel, env)
    IN  IF r.raised
        THEN [trace |-> Append(r.trace, e), raised |-> e.res = "raise", db |-> r.db]
        ELSE r

\* handle_slack_commands: an exception ends in the ephemeral error reply.
HandleSlackCommands(cmd, env) ==
    /\ env.now >= now
    /\ now' = env.now
    /\ LET r == CASE cmd.command = "/daily-summary" ->
                       HandleSummaryCommand("EOD", cmd.channel, db_messages, env.now, env)
                  [] cmd.command = "/weekly-summary" ->
                       HandleSummaryCommand("EOW", cmd.channel, db_messages, env.now, env)
                  [] cmd.command = "/sync-messages" ->
                       HandleSyncCommand(cmd.channel, cmd.text, db_messages, env.now, env)
                  [] cmd.command = "/help-summarizer" ->
                       SendOnly("help", cmd.channel, db_messages, env)
                  [] OTHER -> SendOnly("unknown_command", cmd.channel, db_messages, env)
       IN  /\ db_messages' = r.db
           /\ last' = Ran("slash", NoEvent, NoRequest, cmd,
                          CASE cmd.command = "/daily-summary" -> "EOD"
                            [] cmd.command = "/weekly-summary" -> "EOW"
                            [] cmd.command = "/sync-messages" -> "sync"
                            [] cmd.command = "/help-summarizer" -> "help"
                            [] OTHER -> "fallback",
                          {}, {}, r.trace, r.raised, 200)
    /\ UNCHANGED <<summarizer_state, slack_client, ai_base_url, processed_events, processed_commands,
                   db_summaries, run,
                   workflow_runs, tasks>>

-----------------------------------------------------------------------------
(* The text of the summary message (main.py:391-392).                       *)

\* str(n) of a count below ten.
Decimal(n) == Digits[n + 1]

SummaryHeader(summary_type) == <<summary_type, " Summary Generated", "\n\n">>

\* The ellipsis '...'.
Ellipsis == <<".", ".", ".">>

SummaryFooter(n) == <<"\n\n", "Processed ", Decimal(n), " messages">>

\* The test with >= for >.
IsOverBudgetInclusive(ai_summary) == Len(ai_summary) >= SummaryBudget

\* len(ai_summary) > 1500.
IsOverBudget(ai_summary) == Len(ai_summary) > SummaryBudget

\* summary_text: the header, ai_summary[:1500], the ellipsis when the text is
\* longer, and the count of the messages.
SummaryText(summary_type, ai_summary, n) ==
    SummaryHeader(summary_type) \o Prefix(ai_summary, SummaryBudget)
        \o (IF IsOverBudget(ai_summary) THEN Ellipsis ELSE <<>>)
        \o SummaryFooter(n)

\* The summary text of a run is built from the answer of the summarizer
\* and the messages of the query.
BuildSummaryText(summary_type, ai_summary, n) ==
    /\ n > 0
    /\ last' = [op |-> "summary_text", summary_type |-> summary_type,
                ai_summary |-> ai_summary, n |-> n,
                text |-> SummaryText(summary_type, ai_summary, n)]
    /\ UNCHANGED <<summarizer_state, slack_client, ai_base_url, processed_events, processed_commands,
                   db_messages, db_summaries, now, run,
                   workflow_runs, tasks>>

-----------------------------------------------------------------------------
(* The messages of the prompt (database.py:157, ai.py:189-205).             *)

\* query.sort("timestamp").to_list(): the records by ascending timestamp.
RECURSIVE SortByTimestamp(_)
SortByTimestamp(ms) ==
    IF ms = {} THEN <<>>
    ELSE LET m == CHOOSE x \in ms : \A y \in ms : x.timestamp <= y.timestamp
         IN  <<m>> \o SortByTimestamp(ms \ {m})

\* _build_summary_prompt: the lines of messages[:40], and the number the
\* line '... and N more messages' tells, 0 for no such line.
BuildSummaryPrompt(messages) ==
    [included |-> Prefix(messages, PromptCap),
     more |-> IF Len(messages) > PromptCap THEN Len(messages) - PromptCap ELSE 0]

\* The prompt of the messages of a window of the store.
BuildPromptOfWindow(start, end, env) ==
    /\ LET messages == SortByTimestamp(
                           GetMessagesByDateRange(db_messages, start, end, env))
       IN  last' = [op |-> "prompt", start |-> start, end |-> end, messages |-> messages,
                    prompt |-> BuildSummaryPrompt(messages)]
    /\ UNCHANGED <<summarizer_state, slack_client, ai_base_url, processed_events, processed_commands,
                   db_messages, db_summaries, now, run,
                   workflow_runs, tasks>>

-----------------------------------------------------------------------------
(* The cleaning of a message text (ai.py:214-234).  A text is the sequence  *)
(* of its characters.                                                       *)

\* The class [A-Z0-9].
UpperOrDigit == {
     "A", "B", "C", "D", "E", "F", "G", "H", "I", "J", "K", "L", "M",
     "N", "O", "P", "Q", "R", "S", "T", "U", "V", "W", "X", "Y", "Z",
     "0", "1", "2", "3", "4", "5", "6", "7", "8", "9"}

\* The class [a-zA-Z0-9_+-].
EmojiChars == {
     "a", "b", "c", "d", "e", "f", "g", "h", "i", "j", "k", "l", "m",
     "n", "o", "p", "q", "r", "s", "t", "u", "v", "w", "x", "y", "z",
     "A", "B", "C", "D", "E", "F", "G", "H", "I", "J", "K", "L", "M",
     "N", "O", "P", "Q", "R", "S", "T", "U", "V", "W", "X", "Y", "Z",
     "0", "1", "2", "3", "4", "5", "6", "7", "8", "9", "_", "+", "-"}

\* The characters str.split() splits on, of those of the model.
Whitespace == {" ", "\n", "\t"}

\* The text has the literal lit at position i.
HasAt(text, i, lit) ==
    /\ i + Len(lit) - 1 <= Len(text)
    /\ \A k \in 1..Len(lit) : text[i + k - 1] = lit[k]

\* The position after the longest run, from position i, of characters of
\* class (a greedy [class]* that nothing makes give a character back: the
\* character each pattern wants next is outside the class).
RECURSIVE RunEnd(_, _, _)
RunEnd(text, i, class) ==
    IF i <= Len(text) /\ text[i] \in class THEN RunEnd(text, i + 1, class) ELSE i

\* The same for a negated class [^excluded].
RECURSIVE RunEndNot(_, _, _)
RunEndNot(text, i, excluded) ==
    IF i <= Len(text) /\ text[i] \notin excluded
    THEN RunEndNot(text, i + 1, excluded) ELSE i

\* A match: the position after it (0 for no match) and its replacement.
Match(end, repl) == [end |-> end, repl |-> repl]
NoMatch == Match(0, <<>>)

\* A run from position from to before position to that is not empty and is
\* followed by the character next.
RunThen(text, from, to, next) ==
    to > from /\ to <= Len(text) /\ text[to] = next

\* <@U[A-Z0-9]+> at position i, replaced by '@user'.
MatchUserMention(text, i) ==
    LET j == RunEnd(text, i + 3, UpperOrDigit)
    IN  IF HasAt(text, i, <<"<", "@", "U">>) /\ RunThen(text, i + 3, j, ">")
        THEN Match(j + 1, <<"@", "u", "s", "e", "r">>) ELSE NoMatch

\* The group ([^>]+) from position from, closed by '>'; the replacement is
\* pre and the group.
MatchGroup(text, from, pre) ==
    LET k == RunEndNot(text, from, {">"})
    IN  IF RunThen(text, from, k, ">")
        THEN Match(k + 1, pre \o SubSeq(text, from, k - 1)) ELSE NoMatch

\* <#C[A-Z0-9]+\|([^>]+)> at position i, replaced by '#' and the group.
MatchChannelMention(text, i) ==
    LET j == RunEnd(text, i + 3, UpperOrDigit)
    IN  IF HasAt(text, i, <<"<", "#", "C">>) /\ RunThen(text, i + 3, j, "|")
        THEN MatchGroup(text, j + 1, <<"#">>) ELSE NoMatch

\* The position after <http[s]?:// at position i, 0 when it is not there.
AfterScheme(text, i) ==
    IF HasAt(text, i, <<"<", "h", "t", "t", "p", ":", "/", "/">>) THEN i + 8
    ELSE IF HasAt(text, i, <<"<", "h", "t", "t", "p", "s", ":", "/", "/">>) THEN i + 9
    ELSE 0

\* <http[s]?://[^|>]+\|([^>]+)> at position i, replaced by the group.
MatchLabeledLink(text, i) ==
    LET u == AfterScheme(text, i)
        j == RunEndNot(text, u, {"|", ">"})
    IN  IF u > 0 /\ RunThen(text, u, j, "|")
        THEN MatchGroup(text, j + 1, <<>>) ELSE NoMatch

\* <http[s]?://[^>]+> at position i, replaced by '[link]'.
MatchBareLink(text, i) ==
    LET u == AfterScheme(text, i)
        j == RunEndNot(text, u, {">"})
    IN  IF u > 0 /\ RunThen(text, u, j, ">")
        THEN Match(j + 1, <<"[", "l", "i", "n", "k", "]">>) ELSE NoMatch

\* :[a-zA-Z0-9_+-]+: at position i, replaced by nothing.
MatchEmoji(text, i) ==
    LET j == RunEnd(text, i + 1, EmojiChars)
    IN  IF HasAt(text, i, <<":">>) /\ RunThen(text, i + 1, j, ":")
        THEN Match(j + 1, <<>>) ELSE NoMatch

MatchAt(pattern, text, i) ==
    CASE pattern = "user" -> MatchUserMention(text, i)
      [] pattern = "channel" -> MatchChannelMention(text, i)
      [] pattern = "labeled" -> MatchLabeledLink(text, i)
      [] pattern = "bare" -> MatchBareLink(text, i)
      [] pattern = "emoji" -> MatchEmoji(text, i)

\* re.sub(pattern, repl, text) from position i: the matches from left to
\* right, none overlapping another; a character no match begins at stays.
RECURSIVE ReSubFrom(_, _, _)
ReSubFrom(pattern, text, i) ==
    IF i > Len(text) THEN <<>>
    ELSE LET m == MatchAt(pattern, text, i)
         IN  IF m.end > 0 THEN m.repl \o ReSubFrom(pattern, text, m.end)
             ELSE <<text[i]>> \o ReSubFrom(pattern, text, i + 1)

ReSub(pattern, text) == ReSubFrom(pattern, text, 1)

\* text.split(): the words between the runs of whitespace; word is the word
\* being read at position i.
RECURSIVE SplitFrom(_, _, _)
SplitFrom(text, i, word) ==
    IF i > Len(text) THEN (IF word = <<>> THEN <<>> ELSE <<word>>)
    ELSE IF text[i] \in Whitespace
    THEN (IF word = <<>> THEN <<>> ELSE <<word>>) \o SplitFrom(text, i + 1, <<>>)
    ELSE SplitFrom(text, i + 1, Append(word, text[i]))

Split(text) == SplitFrom(text, 1, <<>>)

\* ' '.join(words).
RECURSIVE JoinWords(_)
JoinWords(words) ==
    IF words = <<>> THEN <<>>
    ELSE IF Len(words) = 1 THEN words[1]
    ELSE words[1] \o <<" ">> \o JoinWords(Tail(words))

\* A cleaning that replaces the bare links before the labeled ones.
CleanMessageTextBareLinksFirst(text) ==
    JoinWords(Split(
        ReSub("emoji", ReSub("labeled", ReSub("bare",
            ReSub("channel", ReSub("user", text)))))))

\* CloudflareAIService._clean_message_text; the final strip() finds no
\* whitespace at the ends of the joined words.
CleanMessageText(text) ==
    JoinWords(Split(
        ReSub("emoji", ReSub("bare", ReSub("labeled",
            ReSub("channel", ReSub("user", text)))))))

\* The text of a message is cleaned.
CleanTextOfMessage ==
    /\ last.op = "text"
    /\ last' = [op |-> "clean", tokens |-> last.tokens, text |-> last.text,
                cleaned |-> CleanMessageText(last.text)]
    /\ UNCHANGED <<summarizer_state, slack_client, ai_base_url, processed_events, processed_commands,
                   db_messages, db_summaries, now, run,
                   workflow_runs, tasks>>

-----------------------------------------------------------------------------
(* The state object of the summarizer (durable_objects.py:15-157). Its      *)
(* methods hold no await: a call runs to its end in one step.               *)

\* None, the timestamp of a state object that has processed nothing.
NoTimestamp == -1

\* A dict with no keys.
EmptyDict == [k \in {} |-> 0]

\* d.get(k, default) and d[k] = v.
DictGet(d, k, default) == IF k \in DOMAIN d THEN d[k] ELSE default
DictSet(d, k, v) == [x \in DOMAIN d \cup {k} |-> IF x = k THEN v ELSE d[x]]

\* SummarizerState.__init__.
NewSummarizerState ==
    [last_processed_timestamp |-> NoTimestamp, message_cache |-> <<>>,
     rate_limits |-> EmptyDict]

\* The clock of the model counts hours: the hour a call falls in is the
\* clock's value; its key is the hour's text, read back by fromisoformat.
CurrentHour(t) == t
Isoformat(hour) == <<"T", hour>>
FromIsoformat(key) == key[2]

RateExceededAboveLimit(current_count, limit_per_hour) == current_count > limit_per_hour

\* The test that refuses a call.
RateExceeded(current_count, limit_per_hour) == current_count >= limit_per_hour

\* The counters of one operation after the clean-up: the hours from the
\* cutoff on.
KeepRecent(counts, cutoff_time) ==
    [k \in {x \in DOMAIN counts : FromIsoformat(x) >= cutoff_time} |-> counts[k]]

\* What check_rate_limit returns and the counters it leaves: a refused call
\* returns before the count and before the clean-up.
RateLimitCheck(rate_limits, operation, limit_per_hour, current_hour) ==
    LET hour_key == Isoformat(current_hour)
        known == IF operation \in DOMAIN rate_limits
                 THEN rate_limits
                 ELSE DictSet(rate_limits, operation, EmptyDict)
        current_count == DictGet(known[operation], hour_key, 0)
        counted == DictSet(known, operation,
                           DictSet(known[operation], hour_key, current_count + 1))
        cutoff_time == current_hour - HoursPerDay
    IN  IF RateExceeded(current_count, limit_per_hour)
        THEN [ret |-> FALSE, rate_limits |-> known]
        ELSE [ret |-> TRUE,
              rate_limits |-> [op \in DOMAIN counted |->
                                  KeepRecent(counted[op], cutoff_time)]]

\* A finished call of check_rate_limit, as tasks keeps it.
RateCall(operation, limit_per_hour, hour, ret) ==
    [call |-> "check_rate_limit", operation |-> operation,
     limit_per_hour |-> limit_per_hour, hour |-> hour, pc |-> "done", ret |-> ret]

\* check_rate_limit(operation, limit_per_hour) is called at env.now; the clock
\* does not run backwards.
CheckRateLimit(operation, limit_per_hour, env) ==
    /\ Len(tasks) < MaxTasks
    /\ env.now >= now
    /\ now' = env.now
    /\ summarizer_state' =
          [summarizer_state EXCEPT !.rate_limits =
              RateLimitCheck(summarizer_state.rate_limits, operation, limit_per_hour,
                             CurrentHour(env.now)).rate_limits]
    /\ tasks' = Append(tasks,
                       RateCall(operation, limit_per_hour, CurrentHour(env.now),
                                RateLimitCheck(summarizer_state.rate_limits, operation,
                                               limit_per_hour,
                                               CurrentHour(env.now)).ret))
    /\ UNCHANGED <<slack_client, ai_base_url, processed_events, processed_commands,
                   db_messages, db_summaries, last, run, workflow_runs>>

\* datetime.min, the timestamp taken for a message that carries none: it
\* is before every timestamp of a message.
DatetimeMin == 0

\* max(msg.get('timestamp', datetime.min) for msg in messages).
LatestTimestamp(messages) ==
    CHOOSE t \in {DictGet(messages[i], "timestamp", DatetimeMin) : i \in 1..Len(messages)} :
        \A i \in 1..Len(messages) : DictGet(messages[i], "timestamp", DatetimeMin) <= t

\* cache[-limit:].
LastItems(cache, limit) ==
    IF Len(cache) <= limit THEN cache
    ELSE SubSeq(cache, Len(cache) - limit + 1, Len(cache))

\* update_message_cache(messages): the cache takes the messages and keeps its
\* last CacheLimit; a batch that is not empty sets the timestamp to its
\* latest (every timestamp of the model is a datetime). tasks keeps the call.
UpdateMessageCache(messages) ==
    /\ Len(tasks) < MaxTasks
    /\ summarizer_state' =
          [summarizer_state EXCEPT
              !.message_cache = LastItems(@ \o messages, CacheLimit),
              !.last_processed_timestamp =
                  IF messages # <<>> THEN LatestTimestamp(messages) ELSE @]
    /\ tasks' = Append(tasks, [call |-> "update_message_cache", messages |-> messages,
                               pc |-> "done"])
    /\ UNCHANGED <<slack_client, ai_base_url, processed_events, processed_commands,
                   db_messages, db_summaries, now, last, run, workflow_runs>>

-----------------------------------------------------------------------------
(* Inputs.                                                                  *)

U1 == <<"U", "1">>
B1 == <<"B", "1">>

\* The messages the platform returns to a sync.
PlatformMessages == {Raw(t, U1, <<"h", "i">>, "", "C1", {}) : t \in 1..MaxTs}

\* Every channel history answers; none answers with a SlackApiError; none
\* raises another exception.
FetchOk == [c \in Channels |-> "ok"]
FetchApiError == [c \in Channels |-> "api_error"]
FetchRaise == [c \in Channels |-> "raise"]

Env(t, send, bot, list, fetch, fetched, store, query, ai, render, save) ==
    [now |-> t, send |-> send, bot |-> bot, list |-> list, fetch |-> fetch,
     fetched |-> fetched, store |-> store, query |-> query, ai |-> ai,
     render |-> render, save |-> save]

\* Every collaborator answers.
NominalEnv(t) == Env(t, "ok", "known", "ok", FetchOk, {}, "ok", "ok", "ok", "ok", "ok")

Init ==
    /\ slack_client \in BOOLEAN
    /\ ai_base_url \in BOOLEAN
    /\ processed_events = <<>>
    /\ processed_commands = <<>>
    /\ db_messages = {}
    /\ db_summaries = {}
    /\ now = 1
    /\ last = Ran("none", NoEvent, NoRequest, NoCommand, "none", {}, {}, <<>>, FALSE, 200)
    /\ run = NoRun
    /\ workflow_runs = <<>>
    /\ tasks = <<>>
    /\ summarizer_state = NewSummarizerState

-----------------------------------------------------------------------------
(* Deliveries against the deduplication sets: few texts, many keys, every   *)
(* collaborator configured and answering.                                   *)

TextHelp == <<"@", " ", "h", "e", "l", "p">>
TextHi == <<"@", " ", "h", "i">>

DedupTs == {1, 2}

DedupEvents ==
    {Event("message", ts, ts, U1, "C1", TextHelp, "") : ts \in DedupTs}
    \cup {Event("app_mention", ts, ts, U1, "C1", text, "") :
            ts \in DedupTs, text \in {TextHelp, TextHi}}

DedupEnvs == {NominalEnv(1)}

InitDedup == Init /\ ai_base_url

NextDedup == \E ev \in DedupEvents, env \in DedupEnvs : HandleSlackEvent(ev, env)

SpecDedup == InitDedup /\ [][NextDedup]_vars

-----------------------------------------------------------------------------
(* First deliveries of mentions with many texts: phrases joined by spaces.  *)

Vocabulary ==
    {<<"e", "o", "d">>, <<"E", "O", "D">>, <<"d", "a", "i", "l", "y">>,
     <<"e", "n", "d", " ", "o", "f">>, <<"d", "a", "y">>, <<"w", "e", "e", "k">>,
     <<"m", "e", "o", "w">>, <<"W", "e", "e", "k", "l", "y">>,
     <<"h", "e", "l", "p">>, <<"H", "E", "L", "P">>, <<"s", "y", "n", "c">>,
     <<"h", "i">>}

RECURSIVE TextsOf(_)
TextsOf(n) ==
    IF n = 0 THEN {<<>>}
    ELSE TextsOf(n - 1)
         \cup {t \o <<" ">> \o w : t \in TextsOf(n - 1) \ {<<>>}, w \in Vocabulary}
         \cup Vocabulary

Texts == TextsOf(MaxWords)

ClassifyEvents == {Event("app_mention", 1, 1, U1, "C1", text, "") : text \in Texts}

NextClassify ==
    \E ev \in ClassifyEvents :
        /\ ~IsDuplicateEvent(ev)
        /\ HandleSlackEvent(ev, NominalEnv(1))

SpecClassify == Init /\ [][NextClassify]_vars

-----------------------------------------------------------------------------
(* Summary runs started by mentions, by slash commands and through the      *)
(* API, with every outcome of the collaborators.                            *)

TextEod == <<"E", "O", "D">>
TextEow == <<"e", "o", "w">>

\* Clock readings: one with the platform's messages inside both windows,
\* one with them outside.
RunNows == {MaxTs, (DaysPerWeek + 1) * HoursPerDay + MaxTs}

RunEvents == {Event("app_mention", 1, 1, U1, "C1", text, "") : text \in {TextEod, TextEow}}

RunCommands ==
    {[command |-> c, channel |-> "C1", text |-> <<"h", "i">>] :
        c \in {"/daily-summary", "/weekly-summary"}}

\* The ways a sync ends: the listing and the fetch of every channel.
SyncOutcomes ==
    {<<"ok", FetchOk>>, <<"failed", FetchOk>>, <<"ok", FetchApiError>>,
     <<"ok", FetchRaise>>}

RunEnvs ==
    {Env(t, send, "known", sync[1], sync[2], fetched, "ok", query, ai, "ok", "ok") :
        t \in RunNows, send \in {"ok", "false"}, sync \in SyncOutcomes,
        fetched \in {{}, PlatformMessages}, query \in {"ok", "failed"},
        ai \in {"ok", "raise"}}

MentionRun == \E ev \in RunEvents, env \in RunEnvs : HandleSlackEvent(ev, env)

SlashRun == \E cmd \in RunCommands, env \in RunEnvs : HandleSlackCommands(cmd, env)

ApiRequests ==
    {[type |-> "EOD", start |-> 1, end |-> MaxTs, custom |-> custom, prefs |-> FALSE] :
        custom \in BOOLEAN}

ApiEnvs ==
    {Env(t, "ok", "known", "ok", FetchOk, {}, "ok", query, ai, render, save) :
        t \in RunNows, query \in {"ok", "failed"}, ai \in {"ok", "raise"},
        render \in {"ok", "raise"}, save \in {"ok", "raise"}}

ApiRun == \E req \in ApiRequests, env \in ApiEnvs : GenerateSummaryApi(req, env)

NextRun == MentionRun \/ SlashRun \/ ApiRun

SpecRun == Init /\ [][NextRun]_vars

-----------------------------------------------------------------------------
(* Summary runs one call at a time; every call of a run returns or raises.  *)

\* The outcomes of the calls of a step: a send is posted, refused (False)
\* or raises; the sync, the query and the summarizer as in RunEnvs.
StepEnvs ==
    {Env(t, send, "known", sync[1], sync[2], fetched, "ok", query, ai, "ok", "ok") :
        t \in RunNows, send \in {"ok", "false", "raise"}, sync \in SyncOutcomes,
        fetched \in {{}, PlatformMessages}, query \in {"ok", "failed"},
        ai \in {"ok", "raise"}}

StartOfRun ==
    \E summary_type \in {"EOD", "EOW"}, env \in StepEnvs : RunStart(summary_type, "C1", env)

\* The call the run is suspended at returns or raises.
StepOfRun ==
    \E env \in StepEnvs :
        \/ RunNotify(env)
        \/ RunSync(env)
        \/ RunQuery(env)
        \/ RunNoMessages(env)
        \/ RunProcessing(env)
        \/ RunSummarize(env)
        \/ RunDeliver(env)
        \/ RunExcept(env)

NextSteps == StartOfRun \/ StepOfRun

SpecSteps == Init /\ [][NextSteps]_vars /\ WF_vars(StepOfRun)

-----------------------------------------------------------------------------
(* Summary texts for answers of the summarizer around the budget.           *)

\* The texts of at most n characters over letters and dots.
RECURSIVE AnswersOf(_)
AnswersOf(n) ==
    IF n = 0 THEN {<<>>}
    ELSE AnswersOf(n - 1)
         \cup {Append(t, c) : t \in AnswersOf(n - 1), c \in {"a", "."}}

Answers == AnswersOf(SummaryBudget + 2)

NextSummaryText ==
    \E summary_type \in {"EOD", "EOW"}, ai_summary \in Answers, n \in 1..(MaxTs + 1) :
        BuildSummaryText(summary_type, ai_summary, n)

SpecSummaryText == Init /\ [][NextSummaryText]_vars

-----------------------------------------------------------------------------
(* Prompts for stores of up to PromptCap + 3 messages.                      *)

StoredMessages ==
    {ProcessMessage(Raw(t, U1, <<"h", "i">>, "", "C1", {})) : t \in 1..(PromptCap + 3)}

InitPrompt ==
    /\ slack_client = TRUE
    /\ ai_base_url = TRUE
    /\ processed_events = <<>>
    /\ processed_commands = <<>>
    /\ db_messages \in SUBSET StoredMessages
    /\ db_summaries = {}
    /\ now = PromptCap + 3
    /\ last = Ran("none", NoEvent, NoRequest, NoCommand, "none", {}, {}, <<>>, FALSE, 200)
    /\ run = NoRun
    /\ workflow_runs = <<>>
    /\ tasks = <<>>
    /\ summarizer_state = NewSummarizerState

NextPrompt ==
    \E start \in 1..(PromptCap + 3), end \in 1..(PromptCap + 3) :
        BuildPromptOfWindow(start, end, NominalEnv(now))

SpecPrompt == InitPrompt /\ [][NextPrompt]_vars

-----------------------------------------------------------------------------
(* Workflow runs over a store that holds messages of this week and of the   *)
(* week before.                                                             *)

WeekHours == DaysPerWeek * HoursPerDay

\* The first, the second and the last hour of the first days of the second
\* week of the clock.
WorkflowNows ==
    {WeekHours + d * HoursPerDay + h : d \in 0..MaxTs, h \in {0, 1, HoursPerDay - 1}}

\* Messages of the Monday and the Tuesday of that week and of the week before.
WorkflowMessages ==
    {ProcessMessage(Raw(t, U1, <<"h", "i">>, "", "C1", {})) :
        t \in {WeekHours - HoursPerDay, WeekHours, WeekHours + HoursPerDay + 1}}

InitWorkflow ==
    /\ slack_client = TRUE
    /\ ai_base_url = TRUE
    /\ processed_events = <<>>
    /\ processed_commands = <<>>
    /\ db_messages \in SUBSET WorkflowMessages
    /\ db_summaries = {}
    /\ now = WeekHours
    /\ last = Ran("none", NoEvent, NoRequest, NoCommand, "none", {}, {}, <<>>, FALSE, 200)
    /\ run = NoRun
    /\ workflow_runs = <<>>
    /\ tasks = <<>>
    /\ summarizer_state = NewSummarizerState

NextWorkflow ==
    \E t \in WorkflowNows :
        \/ RunEodWorkflow(NominalEnv(t))
        \/ RunEowWorkflow(NominalEnv(t))

SpecWorkflow == InitWorkflow /\ [][NextWorkflow]_vars

-----------------------------------------------------------------------------
(* Workflow runs and their cleanup: the specification.                      *)

\* days_old of a cleanup.
CleanupDays == {0, 1, 2}

InitCleanup == InitWorkflow /\ db_messages = {}

NextCleanup ==
    \/ \E t \in WorkflowNows : RunEodWorkflow(NominalEnv(t))
    \/ \E t \in WorkflowNows : RunEowWorkflow(NominalEnv(t))
    \/ \E t \in WorkflowNows, days_old \in CleanupDays :
          CleanupOldWorkflowRuns(days_old, NominalEnv(t))

SpecCleanup == InitCleanup /\ [][NextCleanup]_vars

-----------------------------------------------------------------------------
(* Concurrent deliveries of one mention, as a message event and as an       *)
(* app_mention event, to sets that are empty or full.                       *)

GateEvents ==
    {Event(type, 1, 1, U1, "C1", TextHelp, "") : type \in {"message", "app_mention"}}

\* Keys of earlier events and commands, as many as the sets may keep.
OldEventKeys ==
    [k \in 1..EventsLimit |-> EventKey(Event("message", k + 1, k + 1, U1, "C1", TextHi, ""))]

OldCommandKeys ==
    [k \in 1..CommandsLimit |->
        CommandKey(Event("app_mention", k + 1, k + 1, U1, "C1", TextHi, ""))]

InitGate ==
    /\ slack_client = TRUE
    /\ ai_base_url = TRUE
    /\ processed_events \in {<<>>, OldEventKeys}
    /\ processed_commands \in {<<>>, OldCommandKeys}
    /\ db_messages = {}
    /\ db_summaries = {}
    /\ now = 1
    /\ last = Ran("none", NoEvent, NoRequest, NoCommand, "none", {}, {}, <<>>, FALSE, 200)
    /\ run = NoRun
    /\ workflow_runs = <<>>
    /\ tasks = <<>>
    /\ summarizer_state = NewSummarizerState

NextGate ==
    \/ \E ev \in GateEvents : Deliver(ev)
    \/ \E i \in 1..Len(tasks) : EventGate(i)
    \/ \E i \in 1..Len(tasks) : StoreStep(i, NominalEnv(now))
    \/ \E i \in 1..Len(tasks) : MentionStep(i, NominalEnv(now))
    \/ \E i \in 1..Len(tasks) : DispatchStep(i, NominalEnv(now))

SpecGate == InitGate /\ [][NextGate]_vars

-----------------------------------------------------------------------------
(* Overlapping stores: the specification.                                   *)

\* The message 1 of C1 as the webhook builds it, the same message with the
\* text of a later edit as a sync fetches it, a message of C2 with the same
\* timestamp, another message of C1, and a message without an author.
StoreMessages ==
    {[id |-> 1, channel_id |-> "C1", user_id |-> U1, text |-> TextHi, timestamp |-> 1],
     [id |-> 1, channel_id |-> "C1", user_id |-> U1, text |-> TextHelp, timestamp |-> 1],
     [id |-> 1, channel_id |-> "C2", user_id |-> U1, text |-> TextHi, timestamp |-> 1],
     [id |-> 2, channel_id |-> "C1", user_id |-> U1, text |-> TextHi, timestamp |-> 2],
     [id |-> 2, channel_id |-> "C1", user_id |-> <<>>, text |-> TextHi, timestamp |-> 2]}

\* The database answers or raises.
StoreEnvs == {NominalEnv(1), [NominalEnv(1) EXCEPT !.store = "raise"]}

InitStore ==
    /\ slack_client = TRUE
    /\ ai_base_url = TRUE
    /\ processed_events = <<>>
    /\ processed_commands = <<>>
    /\ db_messages = {}
    /\ db_summaries = {}
    /\ now = 1
    /\ last = Ran("none", NoEvent, NoRequest, NoCommand, "none", {}, {}, <<>>, FALSE, 200)
    /\ run = NoRun
    /\ workflow_runs = <<>>
    /\ tasks = <<>>
    /\ summarizer_state = NewSummarizerState

NextStore ==
    \/ \E m \in StoreMessages : StartStore(m)
    \/ \E i \in 1..Len(tasks), env \in StoreEnvs : FindStep(i, env)
    \/ \E i \in 1..Len(tasks), env \in StoreEnvs : SaveStep(i, env)

SpecStore == InitStore /\ [][NextStore]_vars

-----------------------------------------------------------------------------
(* The channel listing: the specification.                                  *)

\* Channels as the platform lists them.
ListedChannels == {[id |-> "C1", name |-> "general"], [id |-> "C2", name |-> "random"]}

\* A page holds no channel, one or two.
ListingPages ==
    {<<>>} \cup {<<c>> : c \in ListedChannels}
           \cup {<<c, d>> : c \in ListedChannels, d \in ListedChannels}

\* The listings of one page to MaxPages pages.
PageSeqs == UNION {[1..n -> ListingPages] : n \in 1..MaxPages}

\* The platform answers a listing call or refuses it.
ListEnvs == {NominalEnv(1), [NominalEnv(1) EXCEPT !.list = "raise"]}

InitListing ==
    /\ slack_client \in BOOLEAN
    /\ ai_base_url = TRUE
    /\ processed_events = <<>>
    /\ processed_commands = <<>>
    /\ db_messages = {}
    /\ db_summaries = {}
    /\ now = 1
    /\ last = Ran("none", NoEvent, NoRequest, NoCommand, "none", {}, {}, <<>>, FALSE, 200)
    /\ run = NoRun
    /\ workflow_runs = <<>>
    /\ tasks = <<>>
    /\ summarizer_state = NewSummarizerState

ListStepOfTask == \E i \in 1..Len(tasks), env \in ListEnvs : ListStep(i, env)

NextListing ==
    \/ \E pages \in PageSeqs : StartListing(pages)
    \/ ListStepOfTask

SpecListing == InitListing /\ [][NextListing]_vars /\ WF_vars(ListStepOfTask)

-----------------------------------------------------------------------------
(* Message texts built from the markup of the platform.                     *)

MaxTokens == 3

\* A piece of a message text: a user mention, a channel mention, a labeled
\* link, a bare link, an emoji shortcode, a word or a blank.  id: the
\* identifier or the URL; label: the name, the label, the shortcode, the word.
Token(kind, id, label) == [kind |-> kind, id |-> id, label |-> label]

\* The markup of a token as the platform writes it in a text.
Markup(tok) ==
    CASE tok.kind = "user" -> <<"<", "@">> \o tok.id \o <<">">>
      [] tok.kind = "channel" -> <<"<", "#">> \o tok.id \o <<"|">> \o tok.label \o <<">">>
      [] tok.kind = "labeled" -> <<"<">> \o tok.id \o <<"|">> \o tok.label \o <<">">>
      [] tok.kind = "bare" -> <<"<">> \o tok.id \o <<">">>
      [] tok.kind = "emoji" -> <<":">> \o tok.label \o <<":">>
      [] OTHER -> tok.label

CleanTokens ==
    {Token("user", U1, <<>>),
     Token("channel", <<"C", "1">>, <<"g">>),
     Token("labeled", <<"h", "t", "t", "p", ":", "/", "/", "x">>, <<"l">>),
     Token("labeled", <<"h", "t", "t", "p", ":", "/", "/", "x">>, <<"a", "|", "b">>),
     Token("bare", <<"h", "t", "t", "p", "s", ":", "/", "/", "x">>, <<>>),
     Token("emoji", <<>>, <<"a">>),
     Token("word", <<>>, <<"w">>),
     Token("space", <<>>, <<" ">>)}

\* '<@<<"U", "1", "2", "3">>> check <#C1|general> at <http://x|link>'
ExampleTokens ==
    <<Token("user", <<"U", "1", "2", "3">>, <<>>), Token("space", <<>>, <<" ">>),
      Token("word", <<>>, <<"c", "h", "e", "c", "k">>), Token("space", <<>>, <<" ">>),
      Token("channel", <<"C", "1">>, <<"g", "e", "n", "e", "r", "a", "l">>), Token("space", <<>>, <<" ">>),
      Token("word", <<>>, <<"a", "t">>), Token("space", <<>>, <<" ">>),
      Token("labeled", <<"h", "t", "t", "p", ":", "/", "/", "x">>, <<"l", "i", "n", "k">>)>>

\* The sequences of at most n tokens.
RECURSIVE TokenSeqs(_)
TokenSeqs(n) ==
    IF n = 0 THEN {<<>>}
    ELSE TokenSeqs(n - 1)
         \cup {Append(ts, tok) : ts \in TokenSeqs(n - 1), tok \in CleanTokens}

CleanInputs == TokenSeqs(MaxTokens) \cup {ExampleTokens}

\* The text of a sequence of tokens.
RECURSIVE TextOf(_)
TextOf(tokens) ==
    IF tokens = <<>> THEN <<>> ELSE Markup(Head(tokens)) \o TextOf(Tail(tokens))

InitClean ==
    /\ slack_client = TRUE
    /\ ai_base_url = TRUE
    /\ processed_events = <<>>
    /\ processed_commands = <<>>
    /\ db_messages = {}
    /\ db_summaries = {}
    /\ now = 1
    /\ \E tokens \in CleanInputs :
          last = [op |-> "text", tokens |-> tokens, text |-> TextOf(tokens)]
    /\ run = NoRun
    /\ workflow_runs = <<>>
    /\ tasks = <<>>
    /\ summarizer_state = NewSummarizerState

NextClean == CleanTextOfMessage

SpecClean == InitClean /\ [][NextClean]_vars

-----------------------------------------------------------------------------
(* Ingestion: message events of the webhook and syncs started by the slash  *)
(* command, over one history of the platform.                               *)

TextPlain == <<"h", "i">>

\* The replies of the thread of the message 3 of C1: one posted by a bot
\* (subtype bot_message), one by a user.
ThreadReplies ==
    {Raw(6, U1, TextPlain, "bot_message", "C1", {}), Raw(7, U1, TextPlain, "", "C1", {})}

\* The histories of the channels: plain messages, the post of a bot with a
\* reply of a user in its thread, a message with a thread, an author of
\* another shape, no author.
IngestHistory ==
    {Raw(1, U1, TextPlain, "", "C1", {}),
     Raw(2, U1, TextPlain, "bot_message", "C1", {Raw(8, U1, TextPlain, "", "C1", {})}),
     Raw(3, U1, TextPlain, "", "C1", ThreadReplies),
     Raw(4, B1, TextPlain, "", "C2", {}),
     Raw(5, U1, TextPlain, "", "C2", {}),
     Raw(9, <<>>, TextPlain, "", "C2", {})}

\* The message 1 of C1 as the webhook delivers it, a membership change, and
\* a message of an author of another shape.
IngestEvents ==
    {Event("message", 1, 1, U1, "C1", TextPlain, ""),
     Event("message", 11, 11, U1, "C1", TextPlain, "channel_join"),
     Event("message", 12, 12, B1, "C1", TextPlain, "")}

\* Every raw message of the platform in the model: the histories, their
\* threads, and the events.
IngestSources ==
    IngestHistory \cup UNION {r.replies : r \in IngestHistory}
      \cup {Raw(ev.event_ts, ev.user, ev.text, ev.subtype, ev.channel, {}) :
               ev \in IngestEvents}

\* The clock of the ingestion: after every message of the histories.
IngestNow == 12 + MaxTs

IngestEnvs ==
    {Env(IngestNow, "ok", "known", list, fetch, IngestHistory, store, "ok", "ok", "ok", "ok") :
        list \in {"ok", "failed"}, fetch \in [Channels -> {"ok", "api_error", "raise"}],
        store \in {"ok", "failed"}}

\* /sync-messages with no number (24 hours) and with a number of hours.
IngestCommands ==
    {[command |-> "/sync-messages", channel |-> "C1", text |-> text] :
        text \in {TextPlain, <<"9">>}}

InitIngest == Init /\ slack_client /\ ai_base_url

IngestEvent ==
    \E ev \in IngestEvents, env \in IngestEnvs :
        /\ ~IsDuplicateEvent(ev)
        /\ HandleSlackEvent(ev, env)

IngestSync == \E cmd \in IngestCommands, env \in IngestEnvs : HandleSlackCommands(cmd, env)

NextIngest == IngestEvent \/ IngestSync

SpecIngest == InitIngest /\ [][NextIngest]_vars

-----------------------------------------------------------------------------
(* Routing of the events by their type: the specification.                  *)

TextSync == <<"@", " ", "s", "y", "n", "c">>

\* A message, a mention and a reaction, with a text that asks for help, one
\* that asks for a sync and one that does not name the bot.
RouteEvents ==
    {Event(type, 1, 1, U1, "C1", text, "") :
        type \in {"message", "app_mention", "reaction_added"},
        text \in {TextHelp, TextSync, TextPlain}}

\* The bot identifier is known or not; the store answers or fails.
RouteEnvs ==
    {Env(IngestNow, "ok", bot, "ok", FetchOk, IngestHistory, store, "ok", "ok", "ok", "ok") :
        bot \in {"known", "unknown"}, store \in {"ok", "failed"}}

RouteEvent == \E ev \in RouteEvents, env \in RouteEnvs : HandleSlackEvent(ev, env)

SpecRoute == Init /\ [][RouteEvent]_vars

-----------------------------------------------------------------------------
(* One platform message on both ingestion paths: the specification.         *)

\* The messages 1 and 3 of C1 and 5 of C2 as the webhook delivers them: with
\* event_ts equal to ts, and the second also with a later event_ts (10, the
\* ts of no message).
PathEvents ==
    {Event("message", 1, 1, U1, "C1", TextPlain, ""),
     Event("message", 3, 3, U1, "C1", TextPlain, ""),
     Event("message", 3, 10, U1, "C1", TextPlain, ""),
     Event("message", 5, 5, U1, "C2", TextPlain, "")}

\* The histories are those of the ingestion; the store answers or fails.
PathEnvs ==
    {Env(IngestNow, "ok", "known", "ok", FetchOk, IngestHistory, store, "ok", "ok", "ok", "ok") :
        store \in {"ok", "failed"}}

PathEvent == \E ev \in PathEvents, env \in PathEnvs : HandleSlackEvent(ev, env)

PathSync == \E cmd \in IngestCommands, env \in PathEnvs : HandleSlackCommands(cmd, env)

NextPaths == PathEvent \/ PathSync

SpecPaths == InitIngest /\ [][NextPaths]_vars

-----------------------------------------------------------------------------
(* Repeated syncs over unchanged histories: the specification.              *)

\* The histories of the ingestion, in which the reply 7 of the thread of 3
\* was also sent to the channel: the history of C1 returns it and the
\* thread fetch returns it again.
ResyncHistory ==
    IngestHistory \cup {Raw(7, U1, TextPlain, "thread_broadcast", "C1", {})}

\* Every collaborator answers.
ResyncEnv ==
    Env(IngestNow, "ok", "known", "ok", FetchOk, ResyncHistory, "ok", "ok", "ok", "ok", "ok")

ResyncEvent == \E ev \in PathEvents, env \in PathEnvs : HandleSlackEvent(ev, env)

ResyncSync == \E cmd \in IngestCommands : HandleSlackCommands(cmd, ResyncEnv)

NextResync == ResyncEvent \/ ResyncSync

SpecResync == InitIngest /\ [][NextResync]_vars

-----------------------------------------------------------------------------
(* Calls of check_rate_limit: two operations, limits from none to two, in  *)
(* two neighbouring hours and in an hour more than a day later.             *)

RateOperations == {"summary", "sync"}
RateLimits == {0, 1, 2}
RateHours == {1, 2, HoursPerDay + 2}

RateCheck ==
    \E operation \in RateOperations, limit_per_hour \in RateLimits, t \in RateHours :
        CheckRateLimit(operation, limit_per_hour, [now |-> t])

SpecRate == Init /\ [][RateCheck]_vars

-----------------------------------------------------------------------------
(* Calls of update_message_cache: batches of no, one or two messages, each *)
(* with one of two timestamps or with none.                                 *)

CachedMessages == {[timestamp |-> 1], [timestamp |-> 2], [text |-> "hi"]}
MessageBatches ==
    {<<>>} \cup {<<m>> : m \in CachedMessages}
           \cup {<<m1, m2>> : m1 \in CachedMessages, m2 \in CachedMessages}

CacheUpdate == \E messages \in MessageBatches : UpdateMessageCache(messages)

SpecCache == Init /\ [][CacheUpdate]_vars

-----------------------------------------------------------------------------
(* Claims about the deduplication sets, under SpecDedup.                    *)

\* The key of the message event that stored the message m.
EventKeyOfMessage(m) == <<"message", m.id, m.id, m.user_id, m.channel_id>>

\* C1: a delivery whose key is already in processed_events has no effect:
\* it makes no collaborator call (no store write, no chat send, no sync, no
\* summarizer call) and leaves both deduplication sets and the store as
\* they were.
C1_DuplicateDeliveryHasNoEffect ==
    [][(last'.op = "event" /\ HasSeen(processed_events, EventKey(last'.event)))
        => /\ last'.trace = <<>>
           /\ UNCHANGED <<processed_events, processed_commands, db_messages,
                          db_summaries>>]_vars

\* A message event that mentions the bot was delivered again after its
\* first delivery stored its message and ran its command.
C1_Witness ==
    /\ last.op = "event" /\ last.intent = "duplicate_event"
    /\ last.event.type = "message"
    /\ \E m \in db_messages : m.id = last.event.event_ts
    /\ HasSeen(processed_commands, CommandKey(last.event))

\* C2: a key is not seen before it is first recorded, and it is seen
\* directly after the handler has recorded it, in processed_events and in
\* processed_commands, also when recording it triggers the cleanup.
C2_SeenDirectlyAfterRecord ==
    [][/\ (last'.op = "event" /\ ~HasSeen(processed_events, EventKey(last'.event)))
           => HasSeen(processed_events', EventKey(last'.event))
       /\ (last'.op = "event" /\ last'.intent \in {"EOD", "EOW", "help", "sync", "fallback"})
           => /\ ~HasSeen(processed_commands, CommandKey(last'.event))
              /\ HasSeen(processed_commands', CommandKey(last'.event))]_vars

\* C3: after every handler both sets are within their limits.
C3_SetsWithinLimits ==
    /\ Len(processed_events) <= EventsLimit
    /\ Len(processed_commands) <= CommandsLimit

\* A handler has just run both cleanups, and each took the set from one key
\* over its limit down by the size of the slice.
C3_Witness ==
    /\ Cardinality(last.oldest_events) = EventsEvict
    /\ Cardinality(last.oldest_commands) = CommandsEvict
    /\ Len(processed_events) = EventsLimit + 1 - EventsEvict
    /\ Len(processed_commands) = CommandsLimit + 1 - CommandsEvict

\* C4: a cleanup removes exactly the oldest keys by insertion order, and
\* never the key just recorded.
C4_CleanupRemovesOldest ==
    [][/\ last'.oldest_events # {}
           => /\ last'.oldest_events = Range(SubSeq(processed_events, 1, EventsEvict))
              /\ EventKey(last'.event) \notin last'.oldest_events
       /\ last'.oldest_commands # {}
           => /\ last'.oldest_commands = Range(SubSeq(processed_commands, 1, CommandsEvict))
              /\ CommandKey(last'.event) \notin last'.oldest_commands]_vars

-----------------------------------------------------------------------------
(* Claims about the classifier, under SpecClassify.                         *)

HasEodKeyword(text) ==
    Contains(text, KwEod) \/ Contains(text, KwDaily) \/ Contains(text, KwEndOfDay)

HasEowKeyword(text) ==
    Contains(text, KwEow) \/ Contains(text, KwWeekly) \/ Contains(text, KwEndOfWeek)

\* The kinds of the sends that begin one of the five actions.
ActionStarts == {"progress_EOD", "progress_EOW", "help", "sync_start", "fallback"}

\* The actions the last handler began, in order.
StartedActions(trace) ==
    SelectSeq(trace, LAMBDA c : c.call = "send" /\ c.arg \in ActionStarts)

\* C5: a mention that is not a duplicate begins exactly one of the five
\* actions, the first of EOD, EOW, help, sync whose keyword its text
\* contains in any case, else the fallback reply.
C5_FirstMatchingClassWins ==
    (last.op = "event" /\ last.intent \notin {"none", "duplicate_event", "duplicate_command"})
    => LET text == Lower(last.event.text)
           started == StartedActions(last.trace)
       IN  /\ Len(started) = 1
           /\ started[1].arg =
                IF HasEodKeyword(text) THEN "progress_EOD"
                ELSE IF HasEowKeyword(text) THEN "progress_EOW"
                ELSE IF Contains(text, KwHelp) THEN "help"
                ELSE IF Contains(text, KwSync) THEN "sync_start"
                ELSE "fallback"

\* A text with an EOD keyword in upper case and the help keyword ran the
\* EOD summary.
C5_Witness ==
    /\ last.op = "event" /\ last.intent = "EOD"
    /\ Contains(last.event.text, <<"E", "O", "D">>)
    /\ Contains(last.event.text, KwHelp)
    /\ Len(last.trace) > 1 /\ last.trace[1].arg = "progress_EOD"

-----------------------------------------------------------------------------
(* Claims about the summary run, under SpecRun.                             *)

\* The last handler ran _generate_and_send_summary.
IsSummaryRun(l) == l.op \in {"event", "slash"} /\ l.intent \in {"EOD", "EOW"}

\* The channel the command of the last handler came from.
OriginChannel(l) == IF l.op = "event" THEN l.event.channel ELSE l.command.channel

\* The calls of the trace that satisfy a test, in order.
SendsOf(trace, kinds) == SelectSeq(trace, LAMBDA c : c.call = "send" /\ c.arg \in kinds)
CallsOf(trace, call) == SelectSeq(trace, LAMBDA c : c.call = call)

\* The summary message was posted.
SummaryDelivered(l) ==
    \E i \in 1..Len(l.trace) :
        l.trace[i].call = "send" /\ l.trace[i].arg = "summary" /\ l.trace[i].res = "ok"

FailureNotices == {"failure", "mention_error", "sync_error"}

\* The stage a call completes, "" for a call that is no stage.
StageOf(c) ==
    CASE c.call = "send" /\ c.arg \in {"progress_EOD", "progress_EOW"} -> "Notified"
      [] c.call = "sync" -> "Synced"
      [] c.call = "query" -> "Fetched"
      [] c.call = "summarize" -> "Summarized"
      [] c.call = "render" -> "Rendered"
      [] c.call = "persist" -> "Persisted"
      [] c.call = "send" /\ c.arg = "summary" -> "Delivered"
      [] OTHER -> ""

Stages(trace) ==
    LET staged == SelectSeq(trace, LAMBDA c : StageOf(c) # "")
    IN  [i \in 1..Len(staged) |-> StageOf(staged[i])]

\* C6: a command's summary run that delivers its summary went through
\* Notified, Synced, Fetched, Summarized, Rendered, Persisted, Delivered,
\* in this order and once each.
C6_StagesInOrder ==
    (IsSummaryRun(last) /\ SummaryDelivered(last))
    => Stages(last.trace) = <<"Notified", "Synced", "Fetched", "Summarized",
                              "Rendered", "Persisted", "Delivered">>

\* The handler that ran last was a summary run or a generate-summary call.
IsRun(l) == IsSummaryRun(l) \/ l.op = "api"

\* The run ended with its summary: posted to the channel, or returned by
\* the API.
RunSucceeded(l) ==
    \/ IsSummaryRun(l) /\ SummaryDelivered(l)
    \/ l.op = "api" /\ l.status = 200

\* C7: a run that ends with its summary adds exactly one Summary record,
\* under a new identifier, and every other run adds none.
C7_OneSummaryPerSuccessfulRun ==
    [][/\ (IsRun(last') /\ RunSucceeded(last'))
           => \E x \in db_summaries' :
                 /\ db_summaries' = db_summaries \cup {x}
                 /\ \A y \in db_summaries : y.id # x.id
       /\ (IsRun(last') /\ ~RunSucceeded(last'))
           => db_summaries' = db_summaries]_vars

SummarizerRaised(l) ==
    \E i \in 1..Len(l.trace) : l.trace[i].call = "summarize" /\ l.trace[i].res = "raise"

C10_QueryFailureFailsRun ==
    (IsSummaryRun(last)
       /\ \E i \in 1..Len(last.trace) :
             last.trace[i].call = "query" /\ last.trace[i].res = "failed")
    => /\ Len(SendsOf(last.trace, FailureNotices)) >= 1
       /\ SendsOf(last.trace, {"no_messages"}) = <<>>
       /\ CallsOf(last.trace, "summarize") = <<>>

\* C7, the part the API keeps: a generate-summary call that returns its
\* summary has added one record under a new identifier, and a call that
\* fails or finds no message has added none.
C7_ApiRunAddsOneSummary ==
    [][last'.op = "api"
        => IF last'.status = 200
           THEN \E x \in db_summaries' :
                   /\ db_summaries' = db_summaries \cup {x}
                   /\ \A y \in db_summaries : y.id # x.id
                   /\ x.message_count = last'.trace[1].n
           ELSE db_summaries' = db_summaries]_vars

-----------------------------------------------------------------------------
(* Claims about the steps of a summary run that fail, under SpecRun.        *)

\* The sync call at position i of the trace returned without a channel
\* synced: the listing failed, or the fetch of every channel raised.
SyncFailedAt(trace, i) ==
    /\ trace[i].call = "sync"
    /\ trace[i].res = "failed" \/ trace[i].arg = "no_channel"

\* The messages of the store in the window of a run that ended at time t.
InWindow(db, summary_type, t) ==
    {m \in db : /\ m.timestamp >= WindowStart(summary_type, t)
                /\ m.timestamp <= WindowEnd(summary_type, t)}

\* C11: the sync of a summary run does not raise, whether the listing or
\* the fetches failed or not; it is followed by the query of the store, and
\* the run goes on to the no-messages notice or to the summarizer; after a
\* failed sync the query finds what the store held.
C11_SyncFailureDoesNotAbort ==
    IsSummaryRun(last)
    => \A i \in 1..Len(last.trace) :
          last.trace[i].call = "sync"
          => /\ last.trace[i].res # "raise"
             /\ Len(last.trace) >= i + 2
             /\ last.trace[i + 1].call = "query"
             /\ last.trace[i + 2].call = "send"
             /\ \/ last.trace[i + 2].arg = "no_messages"
                \/ /\ last.trace[i + 2].arg = "processing"
                   /\ Len(last.trace) >= i + 3
                   /\ last.trace[i + 3].call = "summarize"
             /\ (SyncFailedAt(last.trace, i) /\ last.trace[i + 1].res = "ok")
                 => last.trace[i + 1].n
                      = Cardinality(InWindow(db_messages, last.intent, now))

\* No channel could be fetched, and the run delivered the summary of the
\* messages the store held.
C11_Witness ==
    /\ IsSummaryRun(last) /\ SummaryDelivered(last)
    /\ \E i \in 1..Len(last.trace) :
          last.trace[i].call = "sync" /\ last.trace[i].arg = "no_channel"
    /\ db_messages # {}

\* The progress notice of the last run was not posted: the send returned
\* False or raised.
ProgressNoticeFailed(l) ==
    \E i \in 1..Len(l.trace) :
        /\ l.trace[i].call = "send"
        /\ l.trace[i].arg \in {"progress_EOD", "progress_EOW"}
        /\ l.trace[i].res # "ok"

\* C12: a run whose progress notice could not be sent, by an error of the
\* platform or for want of a chat client, still syncs and queries the store.
C12_ProgressNoticeFailureDoesNotAbort ==
    (IsSummaryRun(last) /\ ProgressNoticeFailed(last))
    => /\ Len(CallsOf(last.trace, "sync")) = 1
       /\ Len(CallsOf(last.trace, "query")) = 1

\* C12, the part the code keeps: after a progress notice the platform
\* refused (the send returned False) the run still syncs and queries.
C12_RefusedProgressNoticeDoesNotAbort ==
    (IsSummaryRun(last)
       /\ \E i \in 1..Len(last.trace) :
             /\ last.trace[i].call = "send"
             /\ last.trace[i].arg \in {"progress_EOD", "progress_EOW"}
             /\ last.trace[i].res = "false")
    => /\ Len(CallsOf(last.trace, "sync")) = 1
       /\ Len(CallsOf(last.trace, "query")) = 1

-----------------------------------------------------------------------------
(* Claims about the course of a summary run, under SpecSteps.               *)

\* The notices that end a run.
TerminalNotices == {"summary", "no_messages", "failure"}

\* The terminal notices the run has sent: the sends that returned.
TerminalSends(trace) ==
    SelectSeq(trace, LAMBDA c : c.call = "send" /\ c.arg \in TerminalNotices
                                /\ c.res # "raise")

RunInProgress == run.pc \notin {"idle", "ended"}

-----------------------------------------------------------------------------
(* Claims about the text of the summary message, under SpecSummaryText.     *)

\* The part of a summary text between its header and its footer.
SummaryBody(l) ==
    SubSeq(l.text, Len(SummaryHeader(l.summary_type)) + 1,
           Len(l.text) - Len(SummaryFooter(l.n)))

\* The last k elements of a sequence.
Suffix(s, k) == SubSeq(s, Len(s) - k + 1, Len(s))

\* C14: the summary message holds the text of the summarizer unchanged when
\* it is within the budget, and its first SummaryBudget characters followed
\* by the ellipsis when it is longer; the body is longer than the text it
\* was made from only then; the message ends with the count of the
\* messages of the run.
C14_SummaryTextTruncation ==
    last.op = "summary_text"
    => /\ Prefix(last.text, Len(SummaryHeader(last.summary_type)))
            = SummaryHeader(last.summary_type)
       /\ Suffix(last.text, Len(SummaryFooter(last.n))) = SummaryFooter(last.n)
       /\ Len(last.ai_summary) <= SummaryBudget => SummaryBody(last) = last.ai_summary
       /\ Len(last.ai_summary) > SummaryBudget
            => SummaryBody(last) = Prefix(last.ai_summary, SummaryBudget) \o Ellipsis
       /\ (Len(SummaryBody(last)) = Min(Len(last.ai_summary), SummaryBudget) + Len(Ellipsis))
            <=> Len(last.ai_summary) > SummaryBudget

\* A text of exactly the budget that ends with dots was kept whole, with
\* no ellipsis added.
C14_Witness ==
    /\ last.op = "summary_text"
    /\ Len(last.ai_summary) = SummaryBudget
    /\ last.ai_summary[SummaryBudget] = "."
    /\ SummaryBody(last) = last.ai_summary

-----------------------------------------------------------------------------
(* Claims about the prompt, under SpecPrompt.                               *)

\* C15: when the window holds more messages than the cap, the prompt holds
\* the newest ones, leaves out the oldest, and tells how many it left out.
C15_PromptKeepsNewest ==
    (last.op = "prompt" /\ Len(last.messages) > PromptCap)
    => /\ Len(last.prompt.included) = PromptCap
       /\ last.prompt.more = Len(last.messages) - PromptCap
       /\ \A i \in 1..Len(last.messages) :
             (\E j \in 1..Len(last.prompt.included) :
                 last.prompt.included[j] = last.messages[i])
             \/ \A j \in 1..Len(last.prompt.included) :
                   last.messages[i].timestamp < last.prompt.included[j].timestamp

\* C15, the part the code keeps: the prompt holds PromptCap messages of the
\* window and tells the number of the others.
C15_PromptTellsOmitted ==
    (last.op = "prompt" /\ Len(last.messages) > PromptCap)
    => /\ Len(last.prompt.included) = PromptCap
       /\ last.prompt.more = Len(last.messages) - PromptCap

-----------------------------------------------------------------------------
(* Claims about the ingestion, under SpecIngest.                            *)

Ids(ms) == {m.id : m \in ms}

\* The hours a /sync-messages command asks for (main.py:977).
HoursOfCommand(cmd) == IF IsDigit(cmd.text) THEN IntOf(cmd.text) ELSE DefaultHoursBack

\* C16: a sync never raises for a failure of the listing, of a fetch or of
\* the store; when the listing succeeded it returns success, and every
\* channel whose fetch succeeded has its messages in the store afterwards,
\* whatever happened to the other channel.
C16_SyncContinuesPastChannelFailure ==
    [][\A cmd \in IngestCommands, env \in IngestEnvs :
          (last'.command = cmd /\ HandleSlackCommands(cmd, env))
          => /\ \E i \in 1..Len(last'.trace) :
                   /\ last'.trace[i].call = "sync"
                   /\ last'.trace[i].res = IF env.list = "ok" THEN "ok" ELSE "failed"
             /\ \A c \in Channels :
                   (env.list = "ok" /\ env.fetch[c] = "ok" /\ env.store = "ok")
                   => Ids({m \in MessagesFromChannel(c, env.now, HoursOfCommand(cmd), env) :
                              ValidMessage(m)})
                        \subseteq Ids(db_messages')]_vars

\* A sync of the last 24 hours returned success and stored the messages of
\* C2 although C1, whose messages the store does not hold, could not be
\* fetched.
C16_Witness ==
    /\ last.op = "slash" /\ last.command.command = "/sync-messages"
    /\ last.command.text = TextPlain
    /\ \E i \in 1..Len(last.trace) :
          last.trace[i].call = "sync" /\ last.trace[i].res = "ok" /\ last.trace[i].n > 0
    /\ 5 \in Ids(db_messages)
    /\ Ids(db_messages) \cap {1, 3, 7} = {}

\* The records the ingestion paths build from the raw messages.
IngestRecords == {ProcessMessage(r) : r \in IngestSources}

\* C17: for a record the store holds, a second call of the store with its
\* identifier adds no record, and returns something else than the call that
\* inserted it returned.
C17_SecondStoreReportsExisting ==
    \A m \in db_messages :
        LET env == NominalEnv(now)
            before == db_messages \ {m}
        IN  /\ StoreSlackMessageDb(before, m, env) = db_messages
            /\ StoreSlackMessageDb(db_messages, m, env) = db_messages
            /\ StoreSlackMessageReturns(db_messages, m, env)
                 # StoreSlackMessageReturns(before, m, env)

\* C17, the part the code keeps: no two records of the store share an
\* identifier, and a call with an identifier the store holds changes nothing,
\* whatever the rest of the record.
C17_SecondStoreInsertsNothing ==
    /\ \A m1, m2 \in db_messages : m1.id = m2.id => m1 = m2
    /\ \A m \in IngestRecords :
          m.id \in Ids(db_messages)
          => StoreSlackMessageDb(db_messages, m, NominalEnv(now)) = db_messages

\* The raw messages a record of the store was built from.
SourcesOf(m) == {r \in IngestSources : r.ts = m.id}

\* The replies of the threads of the histories.
IngestReplies == UNION {r.replies : r \in IngestHistory}

\* C18: no record of the store was built from a raw message whose subtype
\* is bot_message, channel_join or channel_leave, whether it came by the
\* webhook, in a channel history or in a thread.
C18_NoSkippedSubtypeStored ==
    \A m \in db_messages : \A r \in SourcesOf(m) : r.subtype \notin SkippedSubtypes

\* C18, the part the code keeps: a record built from a raw message of a
\* skipped subtype came as a reply of a thread.
C18_SkippedSubtypeStoredFromThreadOnly ==
    \A m \in db_messages : \A r \in SourcesOf(m) :
        r.subtype \in SkippedSubtypes => r \in IngestReplies

\* C19: every record of the store has an author, and the author has the
\* shape of a user identifier.
C19_StoredAuthorsHaveUserShape ==
    \A m \in db_messages : UserShapeOk(m.user_id)

\* C19, the part the code keeps: no record lacks an author, and the records
\* the webhook adds have an author of the user shape.
C19_WebhookStoresUserShapeOnly ==
    [][/\ \A m \in db_messages' : m.user_id # <<>>
       /\ last'.op = "event"
            => \A m \in db_messages' \ db_messages : UserShapeOk(m.user_id)]_vars

-----------------------------------------------------------------------------
(* Claims about the cleaning of a text, under SpecClean.                    *)

\* What the cleaning is to put for a token.
Replacement(tok) ==
    CASE tok.kind = "user" -> <<"@", "u", "s", "e", "r">>
      [] tok.kind = "channel" -> <<"#">> \o tok.label
      [] tok.kind = "labeled" -> tok.label
      [] tok.kind = "bare" -> <<"[", "l", "i", "n", "k", "]">>
      [] tok.kind = "emoji" -> <<>>
      [] OTHER -> tok.label

RECURSIVE ReplacementsOf(_)
ReplacementsOf(tokens) ==
    IF tokens = <<>> THEN <<>>
    ELSE Replacement(Head(tokens)) \o ReplacementsOf(Tail(tokens))

\* A text without the whitespace at its ends and with one blank for each
\* run of whitespace; out is the part already written.
RECURSIVE SqueezeFrom(_, _, _)
SqueezeFrom(text, i, out) ==
    IF i > Len(text) THEN out
    ELSE IF text[i] \in Whitespace THEN SqueezeFrom(text, i + 1, out)
    ELSE SqueezeFrom(text, i + 1,
             out \o (IF out # <<>> /\ text[i - 1] \in Whitespace THEN <<" ">> ELSE <<>>)
                 \o <<text[i]>>)

Squeeze(text) == SqueezeFrom(text, 1, <<>>)

MarkupChars == {"<", ">", "|"}

\* The cleaned text is the text with '@user' for each user mention, '#name'
\* for each channel mention, the label for each labeled link, '[link]' for
\* each bare link, nothing for each shortcode, and one blank for each run of
\* whitespace inside it.
CleanedAsExpected(l) == l.cleaned = Squeeze(ReplacementsOf(l.tokens))

HoldsNone(text, cs) == \A i \in 1..Len(text) : text[i] \notin cs

-----------------------------------------------------------------------------
(* Claims about the workflow engine, under SpecWorkflow.                    *)

\* C21: the window of every workflow run is the window of the command run at
\* the same time: for EOD the current day from its start to its end, for EOW
\* the seven days before now.
C21_WorkflowUsesSummaryWindow ==
    \A i \in 1..Len(workflow_runs) :
        /\ workflow_runs[i].start
             = WindowStart(workflow_runs[i].type, workflow_runs[i].generated_at)
        /\ workflow_runs[i].end
             = WindowEnd(workflow_runs[i].type, workflow_runs[i].generated_at)

\* C21, the part the code keeps: the window of an EOD workflow starts with
\* the current day, and the window of every workflow ends now.
C21_WorkflowWindowEndsNow ==
    \A i \in 1..Len(workflow_runs) :
        /\ workflow_runs[i].type = "EOD"
             => workflow_runs[i].start = WindowStart("EOD", workflow_runs[i].generated_at)
        /\ workflow_runs[i].end = workflow_runs[i].generated_at

\* The messages of the store in the current day of time t.
MessagesOfDay(t) == InWindow(db_messages, "EOD", t)

\* C22: an EOD workflow run over a store with n > 0 messages of the current
\* day has message_count n, and the store holds a summary of type EOD with
\* message_count n and a document.
C22_EodWorkflowCountsMessages ==
    \A i \in 1..Len(workflow_runs) :
        LET r == workflow_runs[i]
            n == Cardinality(MessagesOfDay(r.generated_at))
        IN  (r.type = "EOD" /\ n > 0)
            => /\ r.status = "completed" /\ r.message_count = n
               /\ \E sm \in db_summaries :
                     sm.type = "EOD" /\ sm.message_count = n /\ sm.pdf_path # ""

\* C22, the part the code keeps: the run completes with type EOD.
C22_EodWorkflowCompletes ==
    (last.op = "workflow" /\ last.intent = "EOD")
    => /\ workflow_runs[Len(workflow_runs)].type = "EOD"
       /\ workflow_runs[Len(workflow_runs)].status = "completed"

-----------------------------------------------------------------------------
(* Claims about a service without its chat credential, under SpecRun.       *)

\* The calls of the chat client in the trace all failed at once: a send or
\* a sync raised, the health check did not know the bot.
ChatCallsFailed(trace) ==
    \A i \in 1..Len(trace) :
        /\ trace[i].call \in {"send", "sync"} => trace[i].res = "raise"
        /\ trace[i].call = "auth_test" => trace[i].res = "unknown"

\* C23: without the chat client every call of it fails at once, and a
\* command of a mention ends as a handled failure: no exception leaves the
\* webhook handler.
C23_MissingClientIsHandled ==
    (~slack_client /\ last.op = "event" /\ IsSummaryRun(last))
    => /\ ChatCallsFailed(last.trace)
       /\ ~last.raised
       /\ last.status = 200

\* C23, the part the code keeps: without the chat client every call of it
\* fails at once; the last of them is the error notice of the mention
\* handler, whose exception leaves the handler.
C23_MissingClientFailsAtOnce ==
    (~slack_client /\ last.op = "event" /\ IsSummaryRun(last))
    => /\ ChatCallsFailed(last.trace)
       /\ last.trace[Len(last.trace)].arg = "mention_error"
       /\ last.raised

-----------------------------------------------------------------------------
(* Claims about concurrent deliveries, under SpecGate.                      *)

\* The tasks that went on after the event gate with the key of the task i,
\* and after the command gate with its command key.
PassedEventGate(i) ==
    {j \in 1..Len(tasks) :
        tasks[j].passed_event /\ EventKey(tasks[j].ev) = EventKey(tasks[i].ev)}

PassedCommandGate(i) ==
    {j \in 1..Len(tasks) :
        tasks[j].passed_command /\ CommandKey(tasks[j].ev) = CommandKey(tasks[i].ev)}

\* C24: of the deliveries of one event, one goes on after the event gate
\* and no second one does, however their steps interleave; the same for the
\* deliveries of one command at the command gate.
C24_OneDeliveryPassesGate ==
    \A i \in 1..Len(tasks) :
        /\ tasks[i].pc # "gate" => Cardinality(PassedEventGate(i)) = 1
        /\ Cardinality(PassedCommandGate(i)) <= 1

\* C24, the part the code keeps: a second delivery goes on after a gate only
\* when a cleanup has removed the key from the set.
C24_SecondDeliveryPassesAfterEviction ==
    \A i \in 1..Len(tasks) :
        /\ tasks[i].pc # "gate" => Cardinality(PassedEventGate(i)) >= 1
        /\ Cardinality(PassedEventGate(i)) > 1
             => \E j \in 1..Len(tasks) : EventKey(tasks[i].ev) \in tasks[j].oldest_events
        /\ Cardinality(PassedCommandGate(i)) > 1
             => \E j \in 1..Len(tasks) : CommandKey(tasks[i].ev) \in tasks[j].oldest_commands

\* The pairs of calls of store_slack_message for one identifier that both
\* ended without an exception of the database or of the validation.
StoredPairs ==
    {p \in (1..Len(tasks)) \X (1..Len(tasks)) :
        /\ p[1] # p[2]
        /\ tasks[p[1]].m.id = tasks[p[2]].m.id
        /\ \A i \in {p[1], p[2]} : /\ tasks[i].pc = "done"
                                   /\ ~tasks[i].raised
                                   /\ ValidMessage(tasks[i].m)}

\* C25: when two flows store a message of the same identifier, in any
\* interleaving of their lookups and their saves, the collection ends with
\* exactly one record of that identifier and both calls return True.
C25_OverlappingStoresLeaveOneRecord ==
    \A p \in StoredPairs :
        /\ tasks[p[1]].ret = "True"
        /\ tasks[p[2]].ret = "True"
        /\ Cardinality({x \in db_messages : x.id = tasks[p[1]].m.id}) = 1

\* Two calls with different field values whose lookups both answered before
\* either save: both saved.
C25_Witness ==
    \E p \in StoredPairs :
        /\ tasks[p[1]].m # tasks[p[2]].m
        /\ ~tasks[p[1]].existing /\ ~tasks[p[2]].existing
        /\ tasks[p[1]].ret = "True" /\ tasks[p[2]].ret = "True"

\* C26: a call of store_slack_message made when the collection holds a
\* record of its identifier changes no record, whatever field values it
\* carries, and no step removes the record of an identifier.
C26_LaterStoreChangesNothing ==
    [][/\ \A x \in db_messages : \E y \in db_messages' : y.id = x.id
       /\ \A i \in 1..Len(tasks) :
            tasks[i].present /\ tasks'[i] # tasks[i] => db_messages' = db_messages]_vars

\* A call made after the record existed, with other field values, has
\* returned and the record is the one that was stored before.
C26_Witness ==
    \E i \in 1..Len(tasks) :
        /\ tasks[i].present /\ tasks[i].pc = "done" /\ tasks[i].ret = "True"
        /\ tasks[i].m \notin db_messages
        /\ \E x \in db_messages : x.id = tasks[i].m.id

\* C27: the identity of a stored message is the pair of its identifier and
\* its channel: every message whose store returned without an exception has
\* a record of its identifier in its channel, also when a message of
\* another channel carries the same timestamp.
C27_SameTimestampOtherChannelStored ==
    \A i \in 1..Len(tasks) :
        tasks[i].pc = "done" /\ ~tasks[i].raised /\ ValidMessage(tasks[i].m)
          => \E x \in db_messages : /\ x.id = tasks[i].m.id
                                    /\ x.channel_id = tasks[i].m.channel_id

\* C27, what the store does: the identifier alone is the key; the store
\* never holds two records of one identifier.
C27_IdentifierAloneIsTheKey ==
    \A x, y \in db_messages : x.id = y.id => x = y

\* The channels of the pages, page after page.
RECURSIVE ChannelsOfPages(_)
ChannelsOfPages(pages) ==
    IF pages = <<>> THEN <<>>
    ELSE ChannelsOfPages(SubSeq(pages, 1, Len(pages) - 1))
           \o [k \in 1..Len(pages[Len(pages)]) |-> ChannelRecord(pages[Len(pages)][k])]

\* C28: get_channels follows the cursor until the platform returns none: on
\* any sequence of pages it ends, and when no call failed it returns the
\* channels of every page once, in the order of the pages, after one
\* listing call for each page.
C28_ListingReturnsEveryPage ==
    /\ [](\A i \in 1..Len(tasks) :
            tasks[i].pc = "done"
              => /\ tasks[i].channels = ChannelsOfPages(tasks[i].pages)
                 /\ tasks[i].calls = Len(tasks[i].pages))
    /\ (tasks # <<>>) ~> (tasks # <<>> /\ tasks[1].pc # "list")

\* A listing of MaxPages pages, the second of them empty, has ended.
C28_Witness ==
    /\ tasks # <<>>
    /\ tasks[1].pc = "done"
    /\ Len(tasks[1].pages) = MaxPages
    /\ tasks[1].pages[2] = <<>>
    /\ tasks[1].pages[MaxPages] # <<>>
    /\ tasks[1].calls = MaxPages

\* The thread parents a fetch of the channels meets: the messages of the
\* histories in the window that have replies.
ThreadParents(cmd, env) ==
    {r \in env.fetched : /\ r.replies # {}
                         /\ r.ts >= env.now - HoursOfCommand(cmd) /\ r.ts <= env.now}

\* A sync whose listing, fetches and stores all answer.
AllAnswer(env) ==
    /\ env.list = "ok" /\ env.store = "ok"
    /\ \A c \in Channels : env.fetch[c] = "ok"

\* C29: every reply of every thread parent of a history page is in the
\* result of get_messages_from_channel: after a sync in which every call
\* answered, the store holds every reply (with an author) of every thread
\* parent of the window.
C29_EveryThreadReplyIncluded ==
    [][\A cmd \in IngestCommands, env \in IngestEnvs :
          (AllAnswer(env) /\ last'.command = cmd /\ HandleSlackCommands(cmd, env))
          => \A r \in ThreadParents(cmd, env) :
               {y.ts : y \in {z \in r.replies : ValidMessage(ProcessMessage(z))}}
                  \subseteq Ids(db_messages')]_vars

\* C29, the part the code keeps: the replies of the thread parents that the
\* history loop does not skip for their subtype are in the result.
C29_RepliesOfKeptParentsIncluded ==
    [][\A cmd \in IngestCommands, env \in IngestEnvs :
          (AllAnswer(env) /\ last'.command = cmd /\ HandleSlackCommands(cmd, env))
          => \A r \in ThreadParents(cmd, env) :
               r.subtype \notin HistorySkippedSubtypes
                 => {y.ts : y \in {z \in r.replies : ValidMessage(ProcessMessage(z))}}
                      \subseteq Ids(db_messages')]_vars

\* The authors of the histories.
IngestUsers == {r.user : r \in IngestSources} \ {<<>>}

\* C30: identity resolution is cached: during one sync the platform is
\* asked at most once for a user and at most once for a channel, however
\* many messages of that author or channel are processed.
C30_IdentityLookedUpOnce ==
    [][\A cmd \in IngestCommands, env \in IngestEnvs :
          (env.list = "ok" /\ last'.command = cmd /\ HandleSlackCommands(cmd, env))
          => /\ \A u \in IngestUsers :
                   UsersInfoCalls(u, env.now, HoursOfCommand(cmd), env) <= 1
             /\ \A c \in Channels :
                   ConversationsInfoCalls(c, env.now, HoursOfCommand(cmd), env) <= 1]_vars

\* C30, what the code does: a sync asks the platform once for every message
\* it processes, for its author and for its channel.
C30_OneLookupForEachMessage ==
    [][\A cmd \in IngestCommands, env \in IngestEnvs :
          (env.list = "ok" /\ last'.command = cmd /\ HandleSlackCommands(cmd, env))
          => /\ \A u \in IngestUsers :
                   UsersInfoCalls(u, env.now, HoursOfCommand(cmd), env)
                     = Cardinality({m \in FetchedInRange(env.now, HoursOfCommand(cmd), env) :
                                       m.user_id = u})
             /\ \A c \in Channels :
                   ConversationsInfoCalls(c, env.now, HoursOfCommand(cmd), env)
                     = Cardinality(MessagesFromChannel(c, env.now, HoursOfCommand(cmd), env))]_vars

-----------------------------------------------------------------------------
(* Claims about the routing of events, under SpecRoute.                     *)

\* The calls of the normalize-and-store step (main.py:241-277).
IsStoreStepCall(c) ==
    c.call \in {"channel_info", "user_info"} \/ (c.call = "store" /\ c.arg = "message")

\* The calls of _handle_bot_mention: sends, syncs and what a summary calls.
IsMentionCall(c) == ~IsStoreStepCall(c) /\ c.call # "auth_test"

\* C31: after the gate, a message event goes through the normalize-and-store
\* step before any handling of a mention in it; an app_mention event goes
\* to the command handling only and writes to the message store through a
\* sync at most; an event of another type writes nothing and sends nothing.
C31_EventsRoutedByType ==
    [][(last'.op = "event" /\ last'.intent # "duplicate_event")
        => /\ last'.event.type = "message"
                => /\ \A i, j \in 1..Len(last'.trace) :
                         IsStoreStepCall(last'.trace[i]) /\ ~IsStoreStepCall(last'.trace[j])
                           => i < j
                   /\ Len(last'.trace) > 0
                   /\ IsStoreStepCall(last'.trace[1])
                   /\ (\E j \in 1..Len(last'.trace) : IsMentionCall(last'.trace[j]))
                        => \E i \in 1..Len(last'.trace) : last'.trace[i].call = "auth_test"
           /\ last'.event.type = "app_mention"
                => /\ \A i \in 1..Len(last'.trace) : IsMentionCall(last'.trace[i])
                   /\ (\A i \in 1..Len(last'.trace) : last'.trace[i].call # "sync")
                        => db_messages' = db_messages
           /\ last'.event.type \notin {"message", "app_mention"}
                => /\ last'.trace = <<>>
                   /\ UNCHANGED <<db_messages, db_summaries, processed_commands>>]_vars

\* A message event that names the bot stored its message and was then
\* answered; an app_mention ran a sync that wrote to the store; a reaction
\* with the same text was recorded and did nothing.
C31_Witness ==
    /\ last.op = "event" /\ last.event.type = "message"
    /\ Len(last.trace) = 5
    /\ last.trace[3].call = "store" /\ last.trace[3].res = "ok"
    /\ last.trace[5].call = "send"
    /\ HasSeen(processed_events, EventKey(Event("reaction_added", 1, 1, U1, "C1", TextHelp, "")))
    /\ HasSeen(processed_events, EventKey(Event("app_mention", 1, 1, U1, "C1", TextSync, "")))
    /\ \E m \in db_messages : m.id = 3

-----------------------------------------------------------------------------
(* Claims about one user message delivered as two events, under SpecGate.   *)

\* The pairs of deliveries of one user message, one as a message event and
\* one as an app_mention event.
TwinDeliveries ==
    {p \in (1..Len(tasks)) \X (1..Len(tasks)) :
        /\ tasks[p[1]].ev.type = "message" /\ tasks[p[2]].ev.type = "app_mention"
        /\ CommandKey(tasks[p[1]].ev) = CommandKey(tasks[p[2]].ev)}

\* C32: when one user message that mentions the bot arrives as a message
\* event and as an app_mention event, in either order or concurrently, its
\* command is executed at most once: at most one of the two deliveries
\* passes the command gate.
C32_TwinDeliveriesRunCommandOnce ==
    \A p \in TwinDeliveries :
        ~(tasks[p[1]].passed_command /\ tasks[p[2]].passed_command)

\* C32, what the code keeps: both deliveries pass the command gate only
\* when a cleanup of processed_commands removed their key in between.
C32_TwinsBothRunAfterEviction ==
    \A p \in TwinDeliveries :
        (tasks[p[1]].passed_command /\ tasks[p[2]].passed_command)
          => \E i \in 1..Len(tasks) : CommandKey(tasks[p[1]].ev) \in tasks[i].oldest_commands

-----------------------------------------------------------------------------
(* Claims about redeliveries after a failure, under SpecDedup.              *)

\* The handler of the last delivery ended in failure: an exception left it,
\* or its except clause sent the error notice.
EndedInFailure(l) ==
    /\ l.op = "event"
    /\ \/ l.raised
       \/ \E i \in 1..Len(l.trace) : l.trace[i].arg = "mention_error"

\* C33: an event or command stays recorded when its processing fails:
\* after a run that ended in failure, a redelivery of the same event, or a
\* delivery that carries the same command, is dropped and the work of the
\* command is not attempted again.
C33_FailedWorkIsNotRetried ==
    [][(/\ EndedInFailure(last) /\ last'.op = "event"
        /\ CommandKey(last'.event) = CommandKey(last.event))
        => \A i \in 1..Len(last'.trace) : ~IsMentionCall(last'.trace[i])]_vars

\* C33, what the code keeps: the same, for the keys that the cleanups of
\* the failed run did not remove.
C33_FailedWorkIsNotRetriedUnlessEvicted ==
    [][(EndedInFailure(last) /\ last'.op = "event")
        => /\ (last'.event = last.event /\ EventKey(last.event) \notin last.oldest_events)
                => last'.intent = "duplicate_event"
           /\ (/\ CommandKey(last'.event) = CommandKey(last.event)
               /\ CommandKey(last.event) \notin last.oldest_commands
               /\ last.intent # "duplicate_command")
                => \A i \in 1..Len(last'.trace) : ~IsMentionCall(last'.trace[i])]_vars

-----------------------------------------------------------------------------
(* Claims about the two ingestion paths, under SpecPaths.                   *)

\* The records of the store built from the platform message of ev.
RecordsOfEvent(ev) ==
    {m \in db_messages :
        \/ m.id = MessageOfEvent(ev).id
        \/ \E r \in IngestHistory : r.ts = ev.ts /\ r.channel = ev.channel
                                      /\ m.id = ProcessMessage(r).id}

\* C34: a platform message ingested through the webhook and through a sync
\* is stored once: both paths derive the same identifier for it, also when
\* the event_ts of the event differs from the ts of the message.
C34_BothPathsStoreOneRecord ==
    \A ev \in PathEvents : Cardinality(RecordsOfEvent(ev)) <= 1

\* C34, what the code keeps: a message is stored twice only when the
\* event_ts of its event differs from its ts.
C34_TwoRecordsOnlyWhenEventTsDiffers ==
    \A ev \in PathEvents :
        Cardinality(RecordsOfEvent(ev)) > 1 => ev.event_ts # ev.ts

-----------------------------------------------------------------------------
(* Claims about repeated syncs, under SpecResync.                           *)

\* The last handler was a /sync-messages command whose sync returned success.
SyncedOk(l) ==
    /\ l.op = "slash" /\ l.command.command = "/sync-messages"
    /\ \E i \in 1..Len(l.trace) : l.trace[i].call = "sync" /\ l.trace[i].res = "ok"

\* C35: a sync is idempotent on the store: a second sync over the same
\* window, with the content of the platform unchanged, leaves the records
\* of the store and all their fields as the first sync left them, also when
\* a reply comes in the history of the channel and in the fetch of its
\* thread.
C35_SecondSyncChangesNothing ==
    [][(SyncedOk(last) /\ SyncedOk(last') /\ last'.command = last.command)
        => db_messages' = db_messages]_vars

\* A sync of the last 24 hours has run on a store that the webhook and a
\* sync had filled; the store holds the reply 7, which the history and the
\* thread both returned, once, and one more sync would leave it as it is.
C35_Witness ==
    /\ SyncedOk(last) /\ last.command.text = TextPlain
    /\ Cardinality({m \in db_messages : m.id = 7}) = 1
    /\ \E m \in db_messages : m.id = 10
    /\ {1, 3, 5, 6} \subseteq Ids(db_messages)
    /\ db_messages = SyncMessages(db_messages, IngestNow, DefaultHoursBack, ResyncEnv).db

-----------------------------------------------------------------------------
(* Claims about the result of a sync, under SpecIngest.                     *)

\* channels_processed and total_messages of the sync of a command.
SyncCounts(cmd, env) == SyncMessages(db_messages, env.now, HoursOfCommand(cmd), env)

\* C36: channels_processed is the number of channels whose history was
\* fetched without a platform error, and total_messages is the number of
\* messages this sync inserted: a channel whose fetch failed and a message
\* that the store held already are not counted.
C36_SyncCountsFetchedAndInserted ==
    [][\A cmd \in IngestCommands, env \in IngestEnvs :
          (env.list = "ok" /\ last'.command = cmd /\ HandleSlackCommands(cmd, env))
          => /\ SyncCounts(cmd, env).channels
                  = Cardinality({c \in Channels : env.fetch[c] = "ok"})
             /\ SyncCounts(cmd, env).n = Cardinality(db_messages' \ db_messages)]_vars

\* C36, what the code counts: the channels whose fetch raised nothing, a
\* SlackApiError being answered with an empty list, and the calls of the
\* store that returned True, for a new record or for an existing one.
C36_SyncCountsReturnedLists ==
    [][\A cmd \in IngestCommands, env \in IngestEnvs :
          (env.list = "ok" /\ last'.command = cmd /\ HandleSlackCommands(cmd, env))
          => /\ SyncCounts(cmd, env).channels
                  = Cardinality({c \in Channels : env.fetch[c] \in {"ok", "api_error"}})
             /\ SyncCounts(cmd, env).n
                  = Cardinality(db_messages' \ db_messages)
                    + (IF env.store = "ok"
                       THEN Cardinality(Ids(FetchedInRange(env.now, HoursOfCommand(cmd), env))
                                          \cap Ids(db_messages))
                       ELSE 0)]_vars

-----------------------------------------------------------------------------
(* Claims about the cleanup of workflow runs, under SpecCleanup.            *)

\* C37: cleanup_old_workflow_runs(days_old) removes exactly the recorded
\* runs whose time is before now minus days_old days; every run at or after
\* that cutoff stays recorded with its fields unchanged, and
\* get_workflow_status still returns it.
C37_CleanupRemovesOldRunsOnly ==
    [][\A days_old \in CleanupDays :
          (/\ last'.op = "cleanup"
           /\ last'.request.start = now' - days_old * HoursPerDay)
          => /\ \A r \in Range(workflow_runs') : r \in Range(workflow_runs)
             /\ \A r \in Range(workflow_runs) :
                   IF r.generated_at < now' - days_old * HoursPerDay
                   THEN GetWorkflowStatus(workflow_runs', r.workflow_id) = NoWorkflowRun
                   ELSE GetWorkflowStatus(workflow_runs', r.workflow_id) = r]_vars

\* A cleanup removed a run of the day before and left a run made exactly
\* days_old days before it.
C37_Witness ==
    /\ last.op = "cleanup"
    /\ Len(workflow_runs) = 1
    /\ workflow_runs[1].generated_at = last.request.start
    /\ workflow_runs[1].workflow_id = 2
    /\ last.request.start < now

-----------------------------------------------------------------------------
(* The hourly allowance of an operation.                                    *)

\* The calls among the first n that were granted to operation in hour.
GrantsAmong(n, operation, hour) ==
    {j \in 1..n : /\ tasks[j].ret
                  /\ tasks[j].operation = operation
                  /\ tasks[j].hour = hour}

\* The count the counters hold for operation in hour.
CounterOf(rate_limits, operation, hour) ==
    IF operation \in DOMAIN rate_limits
    THEN DictGet(rate_limits[operation], Isoformat(hour), 0)
    ELSE 0

\* What every finished call shows: of the calls for one operation with
\* limit L in one hour at most L were granted, and a call is granted exactly
\* when fewer than its limit were granted to its own operation in its hour
\* before it, whatever was granted to other operations.
AllowanceKept ==
    /\ \A operation \in RateOperations, hour \in RateHours, L \in RateLimits :
          Cardinality({j \in GrantsAmong(Len(tasks), operation, hour) :
                          tasks[j].limit_per_hour = L}) <= L
    /\ \A i \in 1..Len(tasks) :
          tasks[i].ret <=>
              Cardinality(GrantsAmong(i - 1, tasks[i].operation, tasks[i].hour))
                  < tasks[i].limit_per_hour

\* What a call does to the counters: a refused call changes no count, and a
\* call changes no count of another operation in the hour it falls in.
CountersKept ==
    Len(tasks') = Len(tasks) + 1 =>
        /\ ~tasks'[Len(tasks')].ret =>
              \A operation \in RateOperations, hour \in RateHours :
                  CounterOf(summarizer_state'.rate_limits, operation, hour)
                      = CounterOf(summarizer_state.rate_limits, operation, hour)
        /\ \A operation \in RateOperations \ {tasks'[Len(tasks')].operation} :
              CounterOf(summarizer_state'.rate_limits, operation, tasks'[Len(tasks')].hour)
                  = CounterOf(summarizer_state.rate_limits, operation,
                              tasks'[Len(tasks')].hour)

\* C38: of the check_rate_limit(op, L) calls that fall in one hour at most L
\* return True for an operation; once L are granted every further call of
\* that hour returns False and leaves the counters as they were; the calls
\* for one operation take nothing from the allowance of another.
C38_AtMostLimitGrantedPerHour == []AllowanceKept /\ [][CountersKept]_vars

\* An operation is granted its one call, refused the next of the same hour,
\* and another operation is granted in that hour all the same.
C38_Witness ==
    /\ Len(tasks) = 3
    /\ tasks[1].ret /\ ~tasks[2].ret /\ tasks[3].ret
    /\ tasks[1].operation = tasks[2].operation
    /\ tasks[3].operation # tasks[1].operation
    /\ tasks[1].limit_per_hour = 1 /\ tasks[2].limit_per_hour = 1
    /\ tasks[3].limit_per_hour = 1
    /\ tasks[1].hour = tasks[2].hour /\ tasks[2].hour = tasks[3].hour

-----------------------------------------------------------------------------
(* The timestamp of the state object, under SpecCache.                      *)

\* The timestamps of the messages passed to update_message_cache so far.
PassedTimestamps ==
    {tasks[i].messages[j].timestamp :
        <<i, j>> \in {p \in (1..Len(tasks)) \X (1..2) :
                        /\ p[2] <= Len(tasks[p[1]].messages)
                        /\ "timestamp" \in DOMAIN tasks[p[1]].messages[p[2]]}}

\* C39: after any sequence of update_message_cache calls the
\* last_processed_timestamp has never decreased and is the greatest
\* timestamp of any message ever passed, also when a later batch holds only
\* messages older than an earlier batch.
C39_TimestampIsGreatestEverPassed ==
    /\ [](PassedTimestamps # {} =>
            /\ summarizer_state.last_processed_timestamp \in PassedTimestamps
            /\ \A t \in PassedTimestamps : t <= summarizer_state.last_processed_timestamp)
    /\ [][summarizer_state'.last_processed_timestamp
             >= summarizer_state.last_processed_timestamp]_vars

\* What holds instead: the timestamp is the latest of the last batch that
\* was not empty, whatever the batches before it held.
C39_TimestampIsLatestOfLastBatch ==
    \A i \in 1..Len(tasks) :
        (/\ tasks[i].messages # <<>>
         /\ \A j \in (i + 1)..Len(tasks) : tasks[j].messages = <<>>)
        => summarizer_state.last_processed_timestamp = LatestTimestamp(tasks[i].messages)

=============================================================================
